---------------------------- MODULE Spec2Model ----------------------------
(***************************************************************************)
(* Model of DealerFraudChecker (src/mvp_dealer_fraud_mcp.py): the CNPJ     *)
(* validator and formatter, the consolidated risk analysis, and the four   *)
(* check operations with the fan-out/fan-in of comprehensive_check.        *)
(*                                                                         *)
(* Strings the code inspects character by character (the CNPJ, the         *)
(* reputation score) are sequences of one-character strings.              *)
(***************************************************************************)
EXTENDS Integers, Sequences, FiniteSets, TLC

VARIABLES
    cnpj,            \* the cnpj argument of the operation under way
    valid,           \* value returned by _validate_cnpj ("none" before the call)
    formatted,       \* value returned by _format_cnpj (<<"?">> before the call)
    data,            \* consolidated["checks_performed"], the input of the risk analysis
    risk,            \* outcome of _analyze_consolidated_risk
    op,              \* the operation called on the checker
    opc,             \* where that operation stands: "called", "gathering", "done"
    company_name,    \* the company_name argument
    tasks,           \* the check coroutines: position, returned record, exception
    api_log,         \* the chat.completions.create calls issued so far
    total_cost,      \* self.total_cost, in billionths of a dollar
    request_history, \* self.request_history
    result           \* what the operation returned to its caller

vVars == <<cnpj, valid, formatted>>
rVars == <<data, risk>>
mVars == <<op, opc, company_name, tasks, api_log, total_cost, request_history, result>>
vars == <<cnpj, valid, formatted, data, risk, op, opc, company_name, tasks,
          api_log, total_cost, request_history, result>>

(***************************************************************************)
(* Bounds of the model.                                                    *)
(***************************************************************************)
\* branch numbers 0000 .. 000<MaxBranch> are appended to every base number
MaxBranch == 3
\* longest reputation_score string drawn for the risk analysis
MaxScoreLen == 3

(***************************************************************************)
(* Characters.                                                             *)
(***************************************************************************)
\* the characters "0" .. "9"
AsciiDigits == {"0", "1", "2", "3", "4", "5", "6", "7", "8", "9"}

\* The decimal digits of Unicode (category Nd), the characters that \d
\* matches in a str pattern and that int() reads: one row per script, the
\* characters of values 0 .. 9 in order.  A character above U+00FF is
\* written as the token <U+XXXX>.
NdBlocks ==
    <<
      <<"0", "1", "2", "3", "4", "5", "6", "7", "8", "9">>,
      <<"<U+0660>", "<U+0661>", "<U+0662>", "<U+0663>", "<U+0664>", "<U+0665>", "<U+0666>", "<U+0667>", "<U+0668>", "<U+0669>">>,
      <<"<U+06F0>", "<U+06F1>", "<U+06F2>", "<U+06F3>", "<U+06F4>", "<U+06F5>", "<U+06F6>", "<U+06F7>", "<U+06F8>", "<U+06F9>">>,
      <<"<U+07C0>", "<U+07C1>", "<U+07C2>", "<U+07C3>", "<U+07C4>", "<U+07C5>", "<U+07C6>", "<U+07C7>", "<U+07C8>", "<U+07C9>">>,
      <<"<U+0966>", "<U+0967>", "<U+0968>", "<U+0969>", "<U+096A>", "<U+096B>", "<U+096C>", "<U+096D>", "<U+096E>", "<U+096F>">>,
      <<"<U+09E6>", "<U+09E7>", "<U+09E8>", "<U+09E9>", "<U+09EA>", "<U+09EB>", "<U+09EC>", "<U+09ED>", "<U+09EE>", "<U+09EF>">>,
      <<"<U+0A66>", "<U+0A67>", "<U+0A68>", "<U+0A69>", "<U+0A6A>", "<U+0A6B>", "<U+0A6C>", "<U+0A6D>", "<U+0A6E>", "<U+0A6F>">>,
      <<"<U+0AE6>", "<U+0AE7>", "<U+0AE8>", "<U+0AE9>", "<U+0AEA>", "<U+0AEB>", "<U+0AEC>", "<U+0AED>", "<U+0AEE>", "<U+0AEF>">>,
      <<"<U+0B66>", "<U+0B67>", "<U+0B68>", "<U+0B69>", "<U+0B6A>", "<U+0B6B>", "<U+0B6C>", "<U+0B6D>", "<U+0B6E>", "<U+0B6F>">>,
      <<"<U+0BE6>", "<U+0BE7>", "<U+0BE8>", "<U+0BE9>", "<U+0BEA>", "<U+0BEB>", "<U+0BEC>", "<U+0BED>", "<U+0BEE>", "<U+0BEF>">>,
      <<"<U+0C66>", "<U+0C67>", "<U+0C68>", "<U+0C69>", "<U+0C6A>", "<U+0C6B>", "<U+0C6C>", "<U+0C6D>", "<U+0C6E>", "<U+0C6F>">>,
      <<"<U+0CE6>", "<U+0CE7>", "<U+0CE8>", "<U+0CE9>", "<U+0CEA>", "<U+0CEB>", "<U+0CEC>", "<U+0CED>", "<U+0CEE>", "<U+0CEF>">>,
      <<"<U+0D66>", "<U+0D67>", "<U+0D68>", "<U+0D69>", "<U+0D6A>", "<U+0D6B>", "<U+0D6C>", "<U+0D6D>", "<U+0D6E>", "<U+0D6F>">>,
      <<"<U+0DE6>", "<U+0DE7>", "<U+0DE8>", "<U+0DE9>", "<U+0DEA>", "<U+0DEB>", "<U+0DEC>", "<U+0DED>", "<U+0DEE>", "<U+0DEF>">>,
      <<"<U+0E50>", "<U+0E51>", "<U+0E52>", "<U+0E53>", "<U+0E54>", "<U+0E55>", "<U+0E56>", "<U+0E57>", "<U+0E58>", "<U+0E59>">>,
      <<"<U+0ED0>", "<U+0ED1>", "<U+0ED2>", "<U+0ED3>", "<U+0ED4>", "<U+0ED5>", "<U+0ED6>", "<U+0ED7>", "<U+0ED8>", "<U+0ED9>">>,
      <<"<U+0F20>", "<U+0F21>", "<U+0F22>", "<U+0F23>", "<U+0F24>", "<U+0F25>", "<U+0F26>", "<U+0F27>", "<U+0F28>", "<U+0F29>">>,
      <<"<U+1040>", "<U+1041>", "<U+1042>", "<U+1043>", "<U+1044>", "<U+1045>", "<U+1046>", "<U+1047>", "<U+1048>", "<U+1049>">>,
      <<"<U+1090>", "<U+1091>", "<U+1092>", "<U+1093>", "<U+1094>", "<U+1095>", "<U+1096>", "<U+1097>", "<U+1098>", "<U+1099>">>,
      <<"<U+17E0>", "<U+17E1>", "<U+17E2>", "<U+17E3>", "<U+17E4>", "<U+17E5>", "<U+17E6>", "<U+17E7>", "<U+17E8>", "<U+17E9>">>,
      <<"<U+1810>", "<U+1811>", "<U+1812>", "<U+1813>", "<U+1814>", "<U+1815>", "<U+1816>", "<U+1817>", "<U+1818>", "<U+1819>">>,
      <<"<U+1946>", "<U+1947>", "<U+1948>", "<U+1949>", "<U+194A>", "<U+194B>", "<U+194C>", "<U+194D>", "<U+194E>", "<U+194F>">>,
      <<"<U+19D0>", "<U+19D1>", "<U+19D2>", "<U+19D3>", "<U+19D4>", "<U+19D5>", "<U+19D6>", "<U+19D7>", "<U+19D8>", "<U+19D9>">>,
      <<"<U+1A80>", "<U+1A81>", "<U+1A82>", "<U+1A83>", "<U+1A84>", "<U+1A85>", "<U+1A86>", "<U+1A87>", "<U+1A88>", "<U+1A89>">>,
      <<"<U+1A90>", "<U+1A91>", "<U+1A92>", "<U+1A93>", "<U+1A94>", "<U+1A95>", "<U+1A96>", "<U+1A97>", "<U+1A98>", "<U+1A99>">>,
      <<"<U+1B50>", "<U+1B51>", "<U+1B52>", "<U+1B53>", "<U+1B54>", "<U+1B55>", "<U+1B56>", "<U+1B57>", "<U+1B58>", "<U+1B59>">>,
      <<"<U+1BB0>", "<U+1BB1>", "<U+1BB2>", "<U+1BB3>", "<U+1BB4>", "<U+1BB5>", "<U+1BB6>", "<U+1BB7>", "<U+1BB8>", "<U+1BB9>">>,
      <<"<U+1C40>", "<U+1C41>", "<U+1C42>", "<U+1C43>", "<U+1C44>", "<U+1C45>", "<U+1C46>", "<U+1C47>", "<U+1C48>", "<U+1C49>">>,
      <<"<U+1C50>", "<U+1C51>", "<U+1C52>", "<U+1C53>", "<U+1C54>", "<U+1C55>", "<U+1C56>", "<U+1C57>", "<U+1C58>", "<U+1C59>">>,
      <<"<U+A620>", "<U+A621>", "<U+A622>", "<U+A623>", "<U+A624>", "<U+A625>", "<U+A626>", "<U+A627>", "<U+A628>", "<U+A629>">>,
      <<"<U+A8D0>", "<U+A8D1>", "<U+A8D2>", "<U+A8D3>", "<U+A8D4>", "<U+A8D5>", "<U+A8D6>", "<U+A8D7>", "<U+A8D8>", "<U+A8D9>">>,
      <<"<U+A900>", "<U+A901>", "<U+A902>", "<U+A903>", "<U+A904>", "<U+A905>", "<U+A906>", "<U+A907>", "<U+A908>", "<U+A909>">>,
      <<"<U+A9D0>", "<U+A9D1>", "<U+A9D2>", "<U+A9D3>", "<U+A9D4>", "<U+A9D5>", "<U+A9D6>", "<U+A9D7>", "<U+A9D8>", "<U+A9D9>">>,
      <<"<U+A9F0>", "<U+A9F1>", "<U+A9F2>", "<U+A9F3>", "<U+A9F4>", "<U+A9F5>", "<U+A9F6>", "<U+A9F7>", "<U+A9F8>", "<U+A9F9>">>,
      <<"<U+AA50>", "<U+AA51>", "<U+AA52>", "<U+AA53>", "<U+AA54>", "<U+AA55>", "<U+AA56>", "<U+AA57>", "<U+AA58>", "<U+AA59>">>,
      <<"<U+ABF0>", "<U+ABF1>", "<U+ABF2>", "<U+ABF3>", "<U+ABF4>", "<U+ABF5>", "<U+ABF6>", "<U+ABF7>", "<U+ABF8>", "<U+ABF9>">>,
      <<"<U+FF10>", "<U+FF11>", "<U+FF12>", "<U+FF13>", "<U+FF14>", "<U+FF15>", "<U+FF16>", "<U+FF17>", "<U+FF18>", "<U+FF19>">>,
      <<"<U+104A0>", "<U+104A1>", "<U+104A2>", "<U+104A3>", "<U+104A4>", "<U+104A5>", "<U+104A6>", "<U+104A7>", "<U+104A8>", "<U+104A9>">>,
      <<"<U+10D30>", "<U+10D31>", "<U+10D32>", "<U+10D33>", "<U+10D34>", "<U+10D35>", "<U+10D36>", "<U+10D37>", "<U+10D38>", "<U+10D39>">>,
      <<"<U+11066>", "<U+11067>", "<U+11068>", "<U+11069>", "<U+1106A>", "<U+1106B>", "<U+1106C>", "<U+1106D>", "<U+1106E>", "<U+1106F>">>,
      <<"<U+110F0>", "<U+110F1>", "<U+110F2>", "<U+110F3>", "<U+110F4>", "<U+110F5>", "<U+110F6>", "<U+110F7>", "<U+110F8>", "<U+110F9>">>,
      <<"<U+11136>", "<U+11137>", "<U+11138>", "<U+11139>", "<U+1113A>", "<U+1113B>", "<U+1113C>", "<U+1113D>", "<U+1113E>", "<U+1113F>">>,
      <<"<U+111D0>", "<U+111D1>", "<U+111D2>", "<U+111D3>", "<U+111D4>", "<U+111D5>", "<U+111D6>", "<U+111D7>", "<U+111D8>", "<U+111D9>">>,
      <<"<U+112F0>", "<U+112F1>", "<U+112F2>", "<U+112F3>", "<U+112F4>", "<U+112F5>", "<U+112F6>", "<U+112F7>", "<U+112F8>", "<U+112F9>">>,
      <<"<U+11450>", "<U+11451>", "<U+11452>", "<U+11453>", "<U+11454>", "<U+11455>", "<U+11456>", "<U+11457>", "<U+11458>", "<U+11459>">>,
      <<"<U+114D0>", "<U+114D1>", "<U+114D2>", "<U+114D3>", "<U+114D4>", "<U+114D5>", "<U+114D6>", "<U+114D7>", "<U+114D8>", "<U+114D9>">>,
      <<"<U+11650>", "<U+11651>", "<U+11652>", "<U+11653>", "<U+11654>", "<U+11655>", "<U+11656>", "<U+11657>", "<U+11658>", "<U+11659>">>,
      <<"<U+116C0>", "<U+116C1>", "<U+116C2>", "<U+116C3>", "<U+116C4>", "<U+116C5>", "<U+116C6>", "<U+116C7>", "<U+116C8>", "<U+116C9>">>,
      <<"<U+11730>", "<U+11731>", "<U+11732>", "<U+11733>", "<U+11734>", "<U+11735>", "<U+11736>", "<U+11737>", "<U+11738>", "<U+11739>">>,
      <<"<U+118E0>", "<U+118E1>", "<U+118E2>", "<U+118E3>", "<U+118E4>", "<U+118E5>", "<U+118E6>", "<U+118E7>", "<U+118E8>", "<U+118E9>">>,
      <<"<U+11950>", "<U+11951>", "<U+11952>", "<U+11953>", "<U+11954>", "<U+11955>", "<U+11956>", "<U+11957>", "<U+11958>", "<U+11959>">>,
      <<"<U+11C50>", "<U+11C51>", "<U+11C52>", "<U+11C53>", "<U+11C54>", "<U+11C55>", "<U+11C56>", "<U+11C57>", "<U+11C58>", "<U+11C59>">>,
      <<"<U+11D50>", "<U+11D51>", "<U+11D52>", "<U+11D53>", "<U+11D54>", "<U+11D55>", "<U+11D56>", "<U+11D57>", "<U+11D58>", "<U+11D59>">>,
      <<"<U+11DA0>", "<U+11DA1>", "<U+11DA2>", "<U+11DA3>", "<U+11DA4>", "<U+11DA5>", "<U+11DA6>", "<U+11DA7>", "<U+11DA8>", "<U+11DA9>">>,
      <<"<U+16A60>", "<U+16A61>", "<U+16A62>", "<U+16A63>", "<U+16A64>", "<U+16A65>", "<U+16A66>", "<U+16A67>", "<U+16A68>", "<U+16A69>">>,
      <<"<U+16AC0>", "<U+16AC1>", "<U+16AC2>", "<U+16AC3>", "<U+16AC4>", "<U+16AC5>", "<U+16AC6>", "<U+16AC7>", "<U+16AC8>", "<U+16AC9>">>,
      <<"<U+16B50>", "<U+16B51>", "<U+16B52>", "<U+16B53>", "<U+16B54>", "<U+16B55>", "<U+16B56>", "<U+16B57>", "<U+16B58>", "<U+16B59>">>,
      <<"<U+1D7CE>", "<U+1D7CF>", "<U+1D7D0>", "<U+1D7D1>", "<U+1D7D2>", "<U+1D7D3>", "<U+1D7D4>", "<U+1D7D5>", "<U+1D7D6>", "<U+1D7D7>">>,
      <<"<U+1D7D8>", "<U+1D7D9>", "<U+1D7DA>", "<U+1D7DB>", "<U+1D7DC>", "<U+1D7DD>", "<U+1D7DE>", "<U+1D7DF>", "<U+1D7E0>", "<U+1D7E1>">>,
      <<"<U+1D7E2>", "<U+1D7E3>", "<U+1D7E4>", "<U+1D7E5>", "<U+1D7E6>", "<U+1D7E7>", "<U+1D7E8>", "<U+1D7E9>", "<U+1D7EA>", "<U+1D7EB>">>,
      <<"<U+1D7EC>", "<U+1D7ED>", "<U+1D7EE>", "<U+1D7EF>", "<U+1D7F0>", "<U+1D7F1>", "<U+1D7F2>", "<U+1D7F3>", "<U+1D7F4>", "<U+1D7F5>">>,
      <<"<U+1D7F6>", "<U+1D7F7>", "<U+1D7F8>", "<U+1D7F9>", "<U+1D7FA>", "<U+1D7FB>", "<U+1D7FC>", "<U+1D7FD>", "<U+1D7FE>", "<U+1D7FF>">>,
      <<"<U+1E140>", "<U+1E141>", "<U+1E142>", "<U+1E143>", "<U+1E144>", "<U+1E145>", "<U+1E146>", "<U+1E147>", "<U+1E148>", "<U+1E149>">>,
      <<"<U+1E2F0>", "<U+1E2F1>", "<U+1E2F2>", "<U+1E2F3>", "<U+1E2F4>", "<U+1E2F5>", "<U+1E2F6>", "<U+1E2F7>", "<U+1E2F8>", "<U+1E2F9>">>,
      <<"<U+1E950>", "<U+1E951>", "<U+1E952>", "<U+1E953>", "<U+1E954>", "<U+1E955>", "<U+1E956>", "<U+1E957>", "<U+1E958>", "<U+1E959>">>,
      <<"<U+1FBF0>", "<U+1FBF1>", "<U+1FBF2>", "<U+1FBF3>", "<U+1FBF4>", "<U+1FBF5>", "<U+1FBF6>", "<U+1FBF7>", "<U+1FBF8>", "<U+1FBF9>">>
    >>

\* the characters re.sub(r'\D', '', s) keeps
Digits == UNION { {NdBlocks[b][i] : i \in 1..10} : b \in DOMAIN NdBlocks }

\* int(c) for a one-character digit string c
DigitVal(c) ==
    CASE c = "0" -> 0 [] c = "1" -> 1 [] c = "2" -> 2 [] c = "3" -> 3
      [] c = "4" -> 4 [] c = "5" -> 5 [] c = "6" -> 6 [] c = "7" -> 7
      [] c = "8" -> 8 [] c = "9" -> 9
      [] OTHER -> CHOOSE v \in 0..9 : \E b \in DOMAIN NdBlocks : NdBlocks[b][v + 1] = c

DigitChar(n) ==
    CASE n = 0 -> "0" [] n = 1 -> "1" [] n = 2 -> "2" [] n = 3 -> "3"
      [] n = 4 -> "4" [] n = 5 -> "5" [] n = 6 -> "6" [] n = 7 -> "7"
      [] n = 8 -> "8" [] n = 9 -> "9"

\* re.sub(r'\D', '', s): the digits of s, in order
StripNonDigits(s) == SelectSeq(s, LAMBDA c : c \in Digits)

\* len(set(s))
DistinctChars(s) == Cardinality({s[i] : i \in 1..Len(s)})

(***************************************************************************)
(* _validate_cnpj                                                          *)
(***************************************************************************)
weights1 == <<5, 4, 3, 2, 9, 8, 7, 6, 5, 4, 3, 2>>
weights2 == <<6, 5, 4, 3, 2, 9, 8, 7, 6, 5, 4, 3, 2>>

\* sum(int(s[i]) * w[i] for i in range(n)), accumulated left to right
RECURSIVE WeightedSum(_, _, _)
WeightedSum(s, w, n) ==
    IF n = 0 THEN 0
    ELSE WeightedSum(s, w, n - 1) + DigitVal(s[n]) * w[n]

\* digit = 11 - (sum % 11); if digit >= 10: digit = 0
CheckDigit(sum) ==
    LET digit == 11 - (sum % 11) IN IF digit >= 10 THEN 0 ELSE digit

\* the validator refusing any input that holds a non-digit character
ValidateDigitsOnly(s) ==
    LET c == StripNonDigits(s) IN
    IF c # s \/ Len(c) # 14 THEN FALSE
    ELSE IF DistinctChars(c) = 1 THEN FALSE
    ELSE LET sum1   == WeightedSum(c, weights1, 12)
             digit1 == CheckDigit(sum1)
             sum2   == WeightedSum(c, weights2, 13)
             digit2 == CheckDigit(sum2)
         IN  DigitVal(c[13]) = digit1 /\ DigitVal(c[14]) = digit2

\* the validator comparing the first check digit only
ValidateFirstDigitOnly(s) ==
    LET c == StripNonDigits(s) IN
    IF Len(c) # 14 THEN FALSE
    ELSE IF DistinctChars(c) = 1 THEN FALSE
    ELSE LET sum1   == WeightedSum(c, weights1, 12)
             digit1 == CheckDigit(sum1)
         IN  DigitVal(c[13]) = digit1

_validate_cnpj(s) ==
    LET c == StripNonDigits(s) IN
    IF Len(c) # 14 THEN FALSE
    ELSE IF DistinctChars(c) = 1 THEN FALSE
    ELSE LET sum1   == WeightedSum(c, weights1, 12)
             digit1 == CheckDigit(sum1)
             sum2   == WeightedSum(c, weights2, 13)
             digit2 == CheckDigit(sum2)
         IN  DigitVal(c[13]) = digit1 /\ DigitVal(c[14]) = digit2

(***************************************************************************)
(* _format_cnpj                                                            *)
(***************************************************************************)
\* the formatter putting one "0" in front of an identifier that is too short
FormatZeroPadded(s) ==
    LET c == StripNonDigits(s) IN
    IF Len(c) = 14
    THEN SubSeq(c, 1, 2) \o <<".">> \o SubSeq(c, 3, 5) \o <<".">>
         \o SubSeq(c, 6, 8) \o <<"/">> \o SubSeq(c, 9, 12) \o <<"-">>
         \o SubSeq(c, 13, 14)
    ELSE IF Len(c) < 14 THEN <<"0">> \o c
    ELSE c

\* the formatter leaving identifiers that fail validation ungrouped
FormatValidOnly(s) ==
    LET c == StripNonDigits(s) IN
    IF Len(c) = 14 /\ _validate_cnpj(c)
    THEN SubSeq(c, 1, 2) \o <<".">> \o SubSeq(c, 3, 5) \o <<".">>
         \o SubSeq(c, 6, 8) \o <<"/">> \o SubSeq(c, 9, 12) \o <<"-">>
         \o SubSeq(c, 13, 14)
    ELSE c

_format_cnpj(s) ==
    LET c == StripNonDigits(s) IN
    IF Len(c) = 14
    THEN SubSeq(c, 1, 2) \o <<".">> \o SubSeq(c, 3, 5) \o <<".">>
         \o SubSeq(c, 6, 8) \o <<"/">> \o SubSeq(c, 9, 12) \o <<"-">>
         \o SubSeq(c, 13, 14)
    ELSE c

(***************************************************************************)
(* Inputs of the validator: 8-digit base numbers, a 4-digit branch, every  *)
(* pair of check digits, written plain, punctuated, with foreign           *)
(* characters, one digit short and one digit long; the strings of 14       *)
(* identical digits; identifiers written wholly or in their last digit     *)
(* with the digits of another script; and the empty string.                *)
(***************************************************************************)
BaseNumbers ==
    { <<"1","1","2","2","2","3","3","3">>,
      <<"0","0","0","0","0","0","0","0">>,
      <<"1","2","3","4","5","6","7","8">>,
      <<"3","3","0","0","0","1","6","7">> }

Branch(b) == <<"0", "0", "0", DigitChar(b)>>

Digits14 ==
    { base \o Branch(b) \o <<d13, d14>> :
        base \in BaseNumbers, b \in 0..MaxBranch,
        d13 \in AsciiDigits, d14 \in AsciiDigits }

Repeated(ch) == [i \in 1..14 |-> ch]

Spaced(c) ==
    <<" ">> \o SubSeq(c, 1, 7) \o <<"x", "-">> \o SubSeq(c, 8, Len(c)) \o <<"\n">>

Renderings(c) ==
    { c, _format_cnpj(c), Spaced(c), SubSeq(c, 1, 13), c \o <<"0">> }

\* the row of NdBlocks that starts with the character zero
Script(zero) == NdBlocks[CHOOSE b \in DOMAIN NdBlocks : NdBlocks[b][1] = zero]

ArabicIndic == Script("<U+0660>")
Fullwidth   == Script("<U+FF10>")

\* the digits of the drawn inputs: ASCII, Arabic-Indic and fullwidth
SampleDigits ==
    AsciiDigits \cup {ArabicIndic[i] : i \in 1..10} \cup {Fullwidth[i] : i \in 1..10}

\* c with the ASCII digits at positions from .. Len(c) written in script sc
InScript(c, sc, from) ==
    [i \in 1..Len(c) |->
        IF i >= from /\ c[i] \in AsciiDigits THEN sc[DigitVal(c[i]) + 1] ELSE c[i]]

ForeignPlain ==
    { <<"1","1","2","2","2","3","3","3","0","0","0","1","8","1">>,
      <<"1","1","2","2","2","3","3","3","0","0","0","1","8","0">>,
      <<"1","1",".","2","2","2",".","3","3","3","/","0","0","0","1","-","8","1">>,
      <<"1","1","2","2","2","3","3","3","0","0","0","1","8">>,
      Repeated("0"), Repeated("1"), Repeated("9") }

ForeignInputs ==
    { InScript(c, sc, from) :
        c \in ForeignPlain, sc \in {ArabicIndic, Fullwidth}, from \in {1, 12, 14, 18} }

CnpjInputs ==
    UNION { Renderings(c) : c \in Digits14 }
      \cup { Repeated(ch) : ch \in SampleDigits }
      \cup { _format_cnpj(Repeated(ch)) : ch \in SampleDigits }
      \cup ForeignInputs
      \cup { << >> }

(***************************************************************************)
(* Specification of the validator and formatter as called on one input.    *)
(***************************************************************************)
NoData == [k \in {} |-> 0]
NoRisk == [raised |-> "not_called"]
NoResult == [kind |-> "none"]

\* the checker is not in use: no operation called, nothing tracked
CheckerUnused ==
    /\ op = "none"
    /\ opc = "done"
    /\ company_name = "None"
    /\ tasks = NoData
    /\ api_log = << >>
    /\ total_cost = 0
    /\ request_history = << >>
    /\ result = NoResult

InitValidate ==
    /\ cnpj \in CnpjInputs
    /\ valid = "none"
    /\ formatted = <<"?">>
    /\ data = NoData
    /\ risk = NoRisk
    /\ CheckerUnused

CallValidate ==
    /\ valid = "none"
    /\ valid' = IF _validate_cnpj(cnpj) THEN "true" ELSE "false"
    /\ UNCHANGED <<cnpj, formatted, data, risk, mVars>>

CallFormat ==
    /\ formatted = <<"?">>
    /\ formatted' = _format_cnpj(cnpj)
    /\ UNCHANGED <<cnpj, valid, data, risk, mVars>>

NextValidate == CallValidate \/ CallFormat

SpecValidate == InitValidate /\ [][NextValidate]_vars

(***************************************************************************)
(* C1: _validate_cnpj(s) returns true exactly when the digits of s are 14, *)
(* not all equal, and the 13th and 14th digit equal the check digits c1,   *)
(* c2, where c1 = 11 - (weighted sum of the first 12 digits mod 11) with   *)
(* weights 5,4,3,2,9,8,7,6,5,4,3,2, c2 = 11 - (weighted sum of the first  *)
(* 13 input digits mod 11) with weights 6,5,4,3,2,9,8,7,6,5,4,3,2, and a   *)
(* computed value >= 10 is replaced by 0.  The digits are compared as the  *)
(* numbers the checksum multiplies.                                        *)
(***************************************************************************)
C1_DigitsOf(s) == [i \in 1..Len(StripNonDigits(s)) |-> DigitVal(StripNonDigits(s)[i])]

C1_Fold(v) == IF v >= 10 THEN 0 ELSE v

C1_c1(d) ==
    C1_Fold(11 - ((5*d[1] + 4*d[2] + 3*d[3] + 2*d[4] + 9*d[5] + 8*d[6] + 7*d[7]
                   + 6*d[8] + 5*d[9] + 4*d[10] + 3*d[11] + 2*d[12]) % 11))

C1_c2(d) ==
    C1_Fold(11 - ((6*d[1] + 5*d[2] + 4*d[3] + 3*d[4] + 2*d[5] + 9*d[6] + 8*d[7]
                   + 7*d[8] + 6*d[9] + 5*d[10] + 4*d[11] + 3*d[12] + 2*d[13]) % 11))

C1_Expected(s) ==
    LET d == C1_DigitsOf(s) IN
    /\ Len(d) = 14
    /\ \E i \in 1..14 : d[i] # d[1]
    /\ d[13] = C1_c1(d)
    /\ d[14] = C1_c2(d)

C1_ValidateMatchesChecksum ==
    valid # "none" => (valid = "true" <=> C1_Expected(cnpj))

\* the digits of s alone, in order, taken one character at a time
RECURSIVE DigitsAlone(_)
DigitsAlone(s) ==
    IF s = << >> THEN << >>
    ELSE (IF Head(s) \in Digits THEN <<Head(s)>> ELSE << >>) \o DigitsAlone(Tail(s))

(***************************************************************************)
(* C17: _validate_cnpj fails closed: for every input string it returns     *)
(* false, without raising, when the digit-stripped input does not have     *)
(* exactly 14 digits or when its 14 digits are all identical (the ten      *)
(* strings "00000000000000" .. "99999999999999"), regardless of the        *)
(* checksum.  Two digits are identical when they are the same number.      *)
(***************************************************************************)
C17_DigitCount(s) == Cardinality({i \in 1..Len(s) : s[i] \in Digits})

C17_AllIdentical(s) ==
    LET d == DigitsAlone(s) IN
    Len(d) = 14 /\ \A i \in 1..14 : DigitVal(d[i]) = DigitVal(d[1])

C17_FailsClosed ==
    valid # "none" =>
      /\ valid \in {"true", "false"}
      /\ (C17_DigitCount(cnpj) # 14 \/ C17_AllIdentical(cnpj)) => valid = "false"

(***************************************************************************)
(* C18: _validate_cnpj is insensitive to punctuation: for every input x,   *)
(* validate(x) equals validate of the digits of x alone and equals         *)
(* validate(_format_cnpj(x)); inserting or removing non-digit characters   *)
(* never changes the result.                                               *)
(***************************************************************************)
C18_PunctuationInsensitive ==
    valid # "none" =>
      /\ (valid = "true") = _validate_cnpj(DigitsAlone(cnpj))
      /\ (valid = "true") = _validate_cnpj(_format_cnpj(cnpj))
      /\ formatted # <<"?">> => (valid = "true") = _validate_cnpj(formatted)
      /\ \A i \in 0..Len(cnpj), ch \in {" ", ".", "x"} :
           (valid = "true") =
             _validate_cnpj(SubSeq(cnpj, 1, i) \o <<ch>> \o SubSeq(cnpj, i + 1, Len(cnpj)))
      /\ \A i \in 1..Len(cnpj) :
           cnpj[i] \notin Digits =>
             (valid = "true") =
               _validate_cnpj(SubSeq(cnpj, 1, i - 1) \o SubSeq(cnpj, i + 1, Len(cnpj)))

\* accepted with blanks, a letter and a newline among the digits, and the
\* formatted form computed from it
C18_Witness ==
    /\ valid = "true"
    /\ \E i \in 1..Len(cnpj) : cnpj[i] \notin Digits \cup {".", "/", "-"}
    /\ formatted # <<"?">>
    /\ formatted # cnpj

(***************************************************************************)
(* C19: the two check digits are uniquely determined by the preceding      *)
(* digits: for every 12-digit prefix at most one pair (d13, d14) makes     *)
(* _validate_cnpj return true, so changing only the last digit (or only    *)
(* the 13th digit) of a valid identifier to a different digit always       *)
(* yields an identifier that validates false, as for "11.222.333/0001-81"  *)
(* (valid) versus "11.222.333/0001-80" (invalid).  A different digit is a  *)
(* digit of another value, in whatever script it is written.               *)
(***************************************************************************)
C19_CheckDigitsUnique ==
    valid = "true" =>
      LET d == DigitsAlone(cnpj) IN
      \A d13 \in SampleDigits, d14 \in SampleDigits :
        <<DigitVal(d13), DigitVal(d14)>> # <<DigitVal(d[13]), DigitVal(d[14])>> =>
          /\ ~_validate_cnpj(SubSeq(d, 1, 12) \o <<d13, d14>>)
          /\ ~_validate_cnpj(_format_cnpj(SubSeq(d, 1, 12) \o <<d13, d14>>))

C19_Witness ==
    /\ valid = "true"
    /\ cnpj = <<"1","1",".","2","2","2",".","3","3","3","/","0","0","0","1","-","8","1">>
    /\ ~_validate_cnpj(<<"1","1",".","2","2","2",".","3","3","3","/","0","0","0","1","-","8","0">>)

(***************************************************************************)
(* C20: _format_cnpj(x) strips all non-digits from x and, if exactly 14    *)
(* digits remain, returns them grouped 2-3-3-4-2 as DD.DDD.DDD/DDDD-DD     *)
(* with the digits in their original order; otherwise it returns the       *)
(* stripped digit string unchanged with no separators; it performs no      *)
(* validation, so it formats checksum-invalid 14-digit input as well.      *)
(***************************************************************************)
C20_FormatGroups ==
    formatted # <<"?">> =>
      LET d == DigitsAlone(cnpj) IN
      IF Len(d) = 14
      THEN /\ Len(formatted) = 18
           /\ formatted[3] = "." /\ formatted[7] = "."
           /\ formatted[11] = "/" /\ formatted[16] = "-"
           /\ \A i \in 1..18 \ {3, 7, 11, 16} : formatted[i] \in Digits
           /\ DigitsAlone(formatted) = d
      ELSE formatted = d

\* a 14-digit identifier that fails validation was grouped all the same
C20_Witness ==
    /\ valid = "false"
    /\ Len(DigitsAlone(cnpj)) = 14
    /\ Len(formatted) = 18
    /\ formatted[11] = "/"

(***************************************************************************)
(* C21: _format_cnpj is idempotent: for every input x,                     *)
(* _format_cnpj(_format_cnpj(x)) = _format_cnpj(x), in particular when x   *)
(* is 14 digits already carrying the canonical punctuation.                *)
(***************************************************************************)
C21_FormatIdempotent ==
    formatted # <<"?">> =>
      /\ _format_cnpj(formatted) = formatted
      /\ _format_cnpj(_format_cnpj(cnpj)) = _format_cnpj(cnpj)

\* the input already is the canonical form, and formatting returned it
C21_Witness ==
    /\ formatted = cnpj
    /\ Len(cnpj) = 18
    /\ cnpj[3] = "." /\ cnpj[7] = "." /\ cnpj[11] = "/" /\ cnpj[16] = "-"

(***************************************************************************)
(* Python / JSON values held in the fields of a check record.  Every       *)
(* value has the same shape: t is the type, s the characters of a str,     *)
(* n the number of an int (or the length of a list), m the mapping of a    *)
(* dict.  A record (a Python dict) is a function from its keys to values;  *)
(* a key the dict does not hold is outside its DOMAIN.                     *)
(***************************************************************************)
EmptyMap == [k \in {} |-> 0]

VNone    == [t |-> "none", s |-> << >>, n |-> 0, m |-> EmptyMap]
VStr(s)  == [t |-> "str",  s |-> s,     n |-> 0, m |-> EmptyMap]
VInt(n)  == [t |-> "int",  s |-> << >>, n |-> n, m |-> EmptyMap]
VList(n) == [t |-> "list", s |-> << >>, n |-> n, m |-> EmptyMap]
VDict(m) == [t |-> "dict", s |-> << >>, n |-> 0, m |-> m]

ATIVA   == <<"A", "T", "I", "V", "A">>
BAIXADA == <<"B", "A", "I", "X", "A", "D", "A">>
NA      == <<"N", "/", "A">>
BAIXO   == <<"B", "A", "I", "X", "O">>
MEDIO   == <<"M", "É", "D", "I", "O">>
ALTO    == <<"A", "L", "T", "O">>
CRITICO == <<"C", "R", "Í", "T", "I", "C", "O">>

\* d.get(k): the value under k, None when d does not hold k
DictGet(d, k) == IF k \in DOMAIN d THEN d[k] ELSE VNone

\* d.get(k, {}): the value under k, an empty dict when d does not hold k
DictGetOrEmpty(d, k) == IF k \in DOMAIN d THEN d[k] ELSE VDict(EmptyMap)

(***************************************************************************)
(* int(s) for a str s: the whitespace int() knows (the ASCII blanks, NEL,   *)
(* NBSP and the Unicode space separators; not U+001C .. U+001F) is dropped *)
(* at both ends, one sign is allowed, then decimal digits of any script,   *)
(* single underscores allowed between digits.  Anything else is a          *)
(* ValueError, and so is a text of more digits than                        *)
(* sys.get_int_max_str_digits(), leading zeros counted.                    *)
(***************************************************************************)
IntMaxStrDigits == 4300

Whitespace ==
    { "\t", "\n", "", "\f", "\r", " ", "", " ",
      "<U+1680>", "<U+2000>", "<U+2001>", "<U+2002>", "<U+2003>", "<U+2004>",
      "<U+2005>", "<U+2006>", "<U+2007>", "<U+2008>", "<U+2009>", "<U+200A>",
      "<U+2028>", "<U+2029>", "<U+202F>", "<U+205F>", "<U+3000>" }

RECURSIVE LStrip(_)
LStrip(s) ==
    IF s # << >> /\ Head(s) \in Whitespace THEN LStrip(Tail(s)) ELSE s

RECURSIVE RStrip(_)
RStrip(s) ==
    IF s # << >> /\ s[Len(s)] \in Whitespace
    THEN RStrip(SubSeq(s, 1, Len(s) - 1)) ELSE s

RECURSIVE DecimalValue(_)
DecimalValue(s) ==
    IF s = << >> THEN 0
    ELSE 10 * DecimalValue(SubSeq(s, 1, Len(s) - 1)) + DigitVal(s[Len(s)])

PyInt(str) ==
    LET body   == RStrip(LStrip(str))
        signed == body # << >> /\ Head(body) \in {"+", "-"}
        num    == IF signed THEN Tail(body) ELSE body
        wellFormed ==
            /\ num # << >>
            /\ \A i \in 1..Len(num) : num[i] \in Digits \cup {"_"}
            /\ num[1] \in Digits
            /\ num[Len(num)] \in Digits
            /\ \A i \in 1..(Len(num) - 1) : ~(num[i] = "_" /\ num[i + 1] = "_")
        tooLong == Len(StripNonDigits(num)) > IntMaxStrDigits
        mag    == DecimalValue(StripNonDigits(num))
    IN  IF ~wellFormed \/ tooLong THEN [ok |-> FALSE, n |-> 0]
        ELSE [ok |-> TRUE,
              n  |-> IF signed /\ Head(body) = "-" THEN 0 - mag ELSE mag]

(***************************************************************************)
(* _get_next_steps and _analyze_consolidated_risk                          *)
(***************************************************************************)
_get_next_steps(risk_level) ==
    IF risk_level = "CRÍTICO" THEN
        << "Evitar qualquer negociação",
           "Procurar outros lojistas",
           "Se já houve negociação, consultar advogado" >>
    ELSE IF risk_level = "ALTO" THEN
        << "Solicitar documentação adicional",
           "Verificar credenciamento em órgãos do setor",
           "Visitar fisicamente o estabelecimento",
           "Consultar outros clientes recentes" >>
    ELSE IF risk_level = "MÉDIO" THEN
        << "Verificar documentos do veículo cuidadosamente",
           "Pedir referências de outros clientes",
           "Fazer vistoria técnica independente",
           "Negociar garantias adicionais" >>
    ELSE
        << "Verificar documentação padrão",
           "Fazer test drive completo",
           "Confirmar procedência do veículo",
           "Manter cautela normal na compra" >>

\* cnpj_data.get("company_data", {}).get("situacao_cadastral") != "ATIVA"
\* "raise" when company_data is not a dict: it has no attribute get
RegistrationSignal(cnpj_data) ==
    LET company_data == DictGetOrEmpty(cnpj_data, "company_data") IN
    IF company_data.t # "dict" THEN "raise"
    ELSE IF DictGet(company_data.m, "situacao_cadastral") # VStr(ATIVA)
         THEN "fire" ELSE "quiet"

\* isinstance(score, str), int(score) < 50; ValueError is swallowed
ReputationSignal(reputation_data) ==
    LET score == DictGet(reputation_data, "reputation_score") IN
    IF score.t # "str" THEN "quiet"
    ELSE LET rep_score == PyInt(score.s) IN
         IF rep_score.ok /\ rep_score.n < 50 THEN "fire" ELSE "quiet"

\* legal_data.get("risk_level") in ["ALTO", "CRÍTICO"]
LegalSignalBug(legal_data) ==
    IF DictGet(legal_data, "risk_level") \in {VStr(ALTO)}
    THEN "fire" ELSE "quiet"

\* the legal signal ignoring a record marked status = error
LegalSignalUnlessError(legal_data) ==
    IF DictGet(legal_data, "status") = VStr(<<"error">>) THEN "quiet"
    ELSE IF DictGet(legal_data, "risk_level") \in {VStr(ALTO), VStr(CRITICO)}
    THEN "fire" ELSE "quiet"

LegalSignal(legal_data) ==
    IF DictGet(legal_data, "risk_level") \in {VStr(ALTO), VStr(CRITICO)}
    THEN "fire" ELSE "quiet"

\* the CRÍTICO threshold tested with > instead of >=
RiskLevelOfStrict(risk_score) ==
    IF risk_score > 80 THEN "CRÍTICO"
    ELSE IF risk_score >= 50 THEN "ALTO"
    ELSE IF risk_score >= 25 THEN "MÉDIO"
    ELSE "BAIXO"

\* the ALTO threshold set at 60 instead of 50
RiskLevelOfShifted(risk_score) ==
    IF risk_score >= 80 THEN "CRÍTICO"
    ELSE IF risk_score >= 60 THEN "ALTO"
    ELSE IF risk_score >= 25 THEN "MÉDIO"
    ELSE "BAIXO"

\* the if / elif chain on the accumulated, unclamped score
RiskLevelOf(risk_score) ==
    IF risk_score >= 80 THEN "CRÍTICO"
    ELSE IF risk_score >= 50 THEN "ALTO"
    ELSE IF risk_score >= 25 THEN "MÉDIO"
    ELSE "BAIXO"

\* the strongest recommendation kept for the full score only
RecommendationOfFullScore(risk_score) ==
    IF risk_score >= 100
    THEN "EVITAR - Não recomendamos fazer negócios com este lojista"
    ELSE IF risk_score >= 50
    THEN "CUIDADO - Investigar mais profundamente antes de negociar"
    ELSE IF risk_score >= 25
    THEN "CAUTELA - Prosseguir com verificações adicionais"
    ELSE "APARENTEMENTE SEGURO - Prosseguir com cautela normal"

\* the recommendation texts, without their leading pictograph
RecommendationOf(risk_score) ==
    IF risk_score >= 80
    THEN "EVITAR - Não recomendamos fazer negócios com este lojista"
    ELSE IF risk_score >= 50
    THEN "CUIDADO - Investigar mais profundamente antes de negociar"
    ELSE IF risk_score >= 25
    THEN "CAUTELA - Prosseguir com verificações adicionais"
    ELSE "APARENTEMENTE SEGURO - Prosseguir com cautela normal"

\* min(risk_score, 100)
ReportedScoreBug(risk_score) == risk_score

ReportedScore(risk_score) == IF risk_score < 100 THEN risk_score ELSE 100

\* the analysis adding the reputation weight without listing its factor
AnalyzeReputationUnlisted(checks_performed) ==
    LET cnpj_data       == IF "cnpj_status" \in DOMAIN checks_performed
                           THEN checks_performed["cnpj_status"] ELSE EmptyMap
        reputation_data == IF "reputation" \in DOMAIN checks_performed
                           THEN checks_performed["reputation"] ELSE EmptyMap
        legal_data      == IF "legal_issues" \in DOMAIN checks_performed
                           THEN checks_performed["legal_issues"] ELSE EmptyMap
        reg == RegistrationSignal(cnpj_data)
        rep == ReputationSignal(reputation_data)
        leg == LegalSignal(legal_data)
        factors1 == IF reg = "fire" THEN <<"Situação cadastral irregular">> ELSE << >>
        score1   == IF reg = "fire" THEN 50 ELSE 0
        score2   == IF rep = "fire" THEN score1 + 30 ELSE score1
        factors3 == IF leg = "fire" THEN Append(factors1, "Problemas legais graves")
                    ELSE factors1
        score3   == IF leg = "fire" THEN score2 + 40 ELSE score2
    IN  IF reg = "raise" THEN [raised |-> "AttributeError"]
        ELSE [raised         |-> "no",
              risk_score     |-> ReportedScore(score3),
              risk_level     |-> RiskLevelOf(score3),
              risk_factors   |-> factors3,
              recommendation |-> RecommendationOf(score3),
              next_steps     |-> _get_next_steps(RiskLevelOf(score3))]

_analyze_consolidated_risk(checks_performed) ==
    LET cnpj_data       == IF "cnpj_status" \in DOMAIN checks_performed
                           THEN checks_performed["cnpj_status"] ELSE EmptyMap
        reputation_data == IF "reputation" \in DOMAIN checks_performed
                           THEN checks_performed["reputation"] ELSE EmptyMap
        legal_data      == IF "legal_issues" \in DOMAIN checks_performed
                           THEN checks_performed["legal_issues"] ELSE EmptyMap
        reg == RegistrationSignal(cnpj_data)
        rep == ReputationSignal(reputation_data)
        leg == LegalSignal(legal_data)
        factors1 == IF reg = "fire" THEN <<"Situação cadastral irregular">> ELSE << >>
        score1   == IF reg = "fire" THEN 50 ELSE 0
        factors2 == IF rep = "fire" THEN Append(factors1, "Baixa reputação online")
                    ELSE factors1
        score2   == IF rep = "fire" THEN score1 + 30 ELSE score1
        factors3 == IF leg = "fire" THEN Append(factors2, "Problemas legais graves")
                    ELSE factors2
        score3   == IF leg = "fire" THEN score2 + 40 ELSE score2
    IN  IF reg = "raise" THEN [raised |-> "AttributeError"]
        ELSE [raised         |-> "no",
              risk_score     |-> ReportedScore(score3),
              risk_level     |-> RiskLevelOf(score3),
              risk_factors   |-> factors3,
              recommendation |-> RecommendationOf(score3),
              next_steps     |-> _get_next_steps(RiskLevelOf(score3))]

(***************************************************************************)
(* Inputs of the risk analysis: the fields it reads, in every shape a      *)
(* parsed response can give them.                                          *)
(***************************************************************************)
ScoreAlphabet == {"0", "3", "4", "5", "9", "-", " ", "_", "x"}

ScoreStrings == UNION { [1..n -> ScoreAlphabet] : n \in 0..MaxScoreLen }

SituacaoValues == { VStr(ATIVA), VStr(BAIXADA), VStr(NA), VInt(1) }

CompanyDataValues ==
    { VStr(NA), VInt(0), VList(0), VDict(EmptyMap) }
      \cup { VDict([k \in {"situacao_cadastral"} |-> v]) : v \in SituacaoValues }

CnpjStatusRecords ==
    { EmptyMap } \cup { [k \in {"company_data"} |-> v] : v \in CompanyDataValues }

\* scores written with the other blanks and digits int() reads
ForeignScoreStrings ==
    { <<"3", "0", "\r">>, <<"", "3", "0">>, <<"3", "0", "\f">>,
      <<" ", "3", "0">>, <<"", "3", "0", "<U+2003>">>,
      <<"<U+0663>", "<U+0660>">>, <<"<U+FF13>", "<U+FF10>">>,
      <<"3", "<U+0660>">>, <<"<U+0667>", "_", "<U+0660>">>,
      <<"+", "3", "0">>, <<"-", "<U+0663>">>, <<"+", " ", "3">>,
      <<"3", "0", "">> }

\* a score of one digit more than int() converts: 4301 zeros
OverlongScore == [i \in 1..(IntMaxStrDigits + 1) |-> "0"]

ReputationScoreValues ==
    { VStr(s) : s \in ScoreStrings \cup ForeignScoreStrings \cup { OverlongScore } }
      \cup { VStr(NA), VInt(30), VInt(70), VList(1), VDict(EmptyMap) }

ReputationRecords ==
    { EmptyMap } \cup { [k \in {"reputation_score"} |-> v] : v \in ReputationScoreValues }

RiskLevelValues ==
    { VStr(ALTO), VStr(CRITICO), VStr(MEDIO), VStr(BAIXO), VStr(NA),
      VInt(3), VList(1) }

LegalRecords ==
    { EmptyMap } \cup { [k \in {"risk_level"} |-> v] : v \in RiskLevelValues }

CheckKeys == {"cnpj_status", "reputation", "legal_issues", "business_images"}

\* the status markers a record can carry ("none": the record has no status)
StatusMarkers == {"none", "success", "success_text", "error", "partial_success"}

WithStatus(rec, st) ==
    IF st = "none" THEN rec
    ELSE [k \in DOMAIN rec \cup {"status"} |->
            IF k = "status" THEN VStr(<<st>>) ELSE rec[k]]

\* records of the visual-presence check, one of them carrying fields named
\* like those the analysis reads in the other records
ImageRecords ==
    { EmptyMap,
      [error |-> VStr(<<"boom">>)],
      [company_data |-> VDict([situacao_cadastral |-> VStr(BAIXADA)]),
       reputation_score |-> VStr(<<"3", "0">>), risk_level |-> VStr(CRITICO)] }

\* the reputation records drawn together with image records and markers
MarkedReputationRecords ==
    { EmptyMap }
      \cup { [k \in {"reputation_score"} |-> v] :
               v \in {VStr(<<"3", "0">>), VStr(<<"9", "0">>), VStr(NA), VInt(30)} }

InitRisk ==
    /\ cnpj = << >>
    /\ valid = "none"
    /\ formatted = <<"?">>
    /\ \E c \in CnpjStatusRecords, r \in ReputationRecords, l \in LegalRecords,
          img \in ImageRecords, st \in StatusMarkers :
         /\ (img = EmptyMap /\ st = "none") \/ r \in MarkedReputationRecords
         /\ data = [k \in CheckKeys |->
                     CASE k = "cnpj_status"  -> WithStatus(c, st)
                       [] k = "reputation"   -> WithStatus(r, st)
                       [] k = "legal_issues" -> WithStatus(l, st)
                       [] OTHER              -> WithStatus(img, st)]
    /\ risk = NoRisk
    /\ CheckerUnused

CallAnalyze ==
    /\ risk = NoRisk
    /\ risk' = _analyze_consolidated_risk(data)
    /\ UNCHANGED <<cnpj, valid, formatted, data, mVars>>

NextRisk == CallAnalyze

SpecRisk == InitRisk /\ [][NextRisk]_vars

Analyzed == risk # NoRisk
Returned == risk # NoRisk /\ risk.raised = "no"

Listed(factor) == \E i \in 1..Len(risk.risk_factors) : risk.risk_factors[i] = factor

RegistrationFactor == "Situação cadastral irregular"
ReputationFactor   == "Baixa reputação online"
LegalFactor        == "Problemas legais graves"

InCompanyData == DictGet(data["cnpj_status"], "company_data")
InScore       == DictGet(data["reputation"], "reputation_score")
InRiskLevel   == DictGet(data["legal_issues"], "risk_level")

(***************************************************************************)
(* C4: the registration signal fires only if the registration record       *)
(* carries a nested company_data.situacao_cadastral that is not "ATIVA";   *)
(* with no company_data field it does not fire, so reputation_score "30"   *)
(* and legal risk_level "ALTO" give score 70, level "ALTO" and the two     *)
(* factors [reputation, legal].                                            *)
(***************************************************************************)
C4_NestedFieldIrregular ==
    /\ "company_data" \in DOMAIN data["cnpj_status"]
    /\ InCompanyData.t = "dict"
    /\ "situacao_cadastral" \in DOMAIN InCompanyData.m
    /\ InCompanyData.m["situacao_cadastral"] # VStr(ATIVA)

C4_RegistrationNeedsNestedField ==
    Returned =>
      /\ Listed(RegistrationFactor) => C4_NestedFieldIrregular
      /\ ( /\ "company_data" \notin DOMAIN data["cnpj_status"]
           /\ InScore = VStr(<<"3", "0">>)
           /\ InRiskLevel = VStr(ALTO) )
         => /\ risk.risk_score = 70
            /\ risk.risk_level = "ALTO"
            /\ risk.risk_factors = <<ReputationFactor, LegalFactor>>

(***************************************************************************)
(* C5: _analyze_consolidated_risk never raises: for every combination of   *)
(* check records, also when company_data, reputation_score or risk_level   *)
(* is absent, "N/A" or of an unexpected type, it returns an assessment     *)
(* and the anomalous field contributes no signal.                          *)
(***************************************************************************)
C5_NeverRaises == Analyzed => risk.raised = "no"

(***************************************************************************)
(* C8: the reputation signal adds 30 and lists "Baixa reputação online"    *)
(* whenever reputation_score is present and parses as an integer below     *)
(* 50, as a numeric string or as a JSON number; a non-numeric or absent    *)
(* value contributes nothing and raises no error.                          *)
(***************************************************************************)
C8_ParsesBelow50 ==
    \/ InScore.t = "int" /\ InScore.n < 50
    \/ InScore.t = "str" /\ PyInt(InScore.s).ok /\ PyInt(InScore.s).n < 50

C8_OtherWeights ==
    (IF Listed(RegistrationFactor) THEN 50 ELSE 0)
      + (IF Listed(LegalFactor) THEN 40 ELSE 0)

C8_ReputationSignal ==
    Returned =>
      /\ Listed(ReputationFactor) <=> C8_ParsesBelow50
      /\ LET sum == C8_OtherWeights + (IF C8_ParsesBelow50 THEN 30 ELSE 0)
         IN  risk.risk_score = IF sum > 100 THEN 100 ELSE sum

(***************************************************************************)
(* C9: the legal signal adds 40 and lists "Problemas legais graves"        *)
(* exactly when the legal record's risk_level equals "ALTO" or "CRÍTICO";  *)
(* any other or absent risk_level adds nothing.                            *)
(***************************************************************************)
C9_HighOrCritical ==
    /\ "risk_level" \in DOMAIN data["legal_issues"]
    /\ InRiskLevel.t = "str"
    /\ InRiskLevel.s \in {ALTO, CRITICO}

C9_OtherWeights ==
    (IF Listed(RegistrationFactor) THEN 50 ELSE 0)
      + (IF Listed(ReputationFactor) THEN 30 ELSE 0)

C9_LegalSignal ==
    Returned =>
      /\ Listed(LegalFactor) <=> C9_HighOrCritical
      /\ LET sum == C9_OtherWeights + (IF C9_HighOrCritical THEN 40 ELSE 0)
         IN  risk.risk_score = IF sum > 100 THEN 100 ELSE sum

\* risk_level "CRÍTICO" alone fired the legal signal: 40 points, one factor
C9_Witness ==
    /\ Returned
    /\ InRiskLevel = VStr(CRITICO)
    /\ risk.risk_factors = <<LegalFactor>>
    /\ risk.risk_score = 40

(***************************************************************************)
(* C10: the reported risk_score is min(sum of the weights of the fired     *)
(* signals, 100), an integer in 0..100; when all three signals fire        *)
(* (50 + 30 + 40 = 120) it is exactly 100.                                 *)
(***************************************************************************)
C10_Accumulated ==
    (IF Listed(RegistrationFactor) THEN 50 ELSE 0)
      + (IF Listed(ReputationFactor) THEN 30 ELSE 0)
      + (IF Listed(LegalFactor) THEN 40 ELSE 0)

C10_ScoreClamped ==
    Returned =>
      /\ risk.risk_score \in 0..100
      /\ risk.risk_score = IF C10_Accumulated <= 100 THEN C10_Accumulated ELSE 100
      /\ Len(risk.risk_factors) = 3 => risk.risk_score = 100

\* all three signals fired and the score was cut from 120 to 100
C10_Witness ==
    /\ Returned
    /\ risk.risk_factors = <<RegistrationFactor, ReputationFactor, LegalFactor>>
    /\ risk.risk_score = 100

(***************************************************************************)
(* The language-model API and its response text.                           *)
(*                                                                         *)
(* A response text is described by what the code looks at: whether it      *)
(* holds a ```json fence, whether other text surrounds the JSON payload,   *)
(* whether it is longer than 500 characters, and the payload itself        *)
(* (a JSON object, array, number, null, or no JSON at all).                *)
(***************************************************************************)
VBool(b) == [t |-> "bool", s |-> << >>, n |-> IF b THEN 1 ELSE 0, m |-> EmptyMap]

\* a float, held as the characters of its repr
VFloat(r) == [t |-> "float", s |-> r, n |-> 0, m |-> EmptyMap]

\* a str the code only builds, stores or compares as a whole
Tok(x) == VStr(<<x>>)

\* datetime.now().isoformat()
Now == Tok("<now>")

\* datetime.now().isoformat() when the clock is read on a whole second:
\* microsecond is 0 and the text has no fraction (n = 1), 19 characters
\* instead of 26
NowOnWholeSecond == [t |-> "str", s |-> <<"<now>">>, n |-> 1, m |-> EmptyMap]

\* len(datetime.now().isoformat())
IsoLength(now) == IF now.n = 1 THEN 19 ELSE 26

\* What a response text holds: k is the kind of the JSON text in it
\* ("object" with the members o, "array" for [1], "number" for 42, "float"
\* for 4.5, "string" for "ATIVA", "boolean" for true, "null", "nan" for
\* NaN, "infinity" for Infinity, "deep_array" and "deep_object" for arrays
\* and objects nested beyond the recursion limit), or "none" for text that
\* is no JSON.
Payload(k, o) == [k |-> k, o |-> o]

\* A response text: fenced when the payload follows a ```json marker, lead
\* when other text precedes it, long when the text has more than 500
\* characters.  close tells what follows the payload: "fence" the closing
\* ```, "blank" one whitespace character and the end of the text, "char"
\* one other character (that continues no JSON) and the end of the text,
\* "end" the end of the text.  cut is TRUE for a text whose last character
\* a slice has dropped.
Text(fenced, lead, long, payload) ==
    [fenced |-> fenced, lead |-> lead, long |-> long, payload |-> payload,
     close |-> IF fenced THEN "fence" ELSE "end", cut |-> FALSE]

\* a text followed by one character that continues no JSON, or by a blank
WithClose(text, close) == [text EXCEPT !.close = close]

\* a text whose ```json fence is never closed
OpenFence(lead, close, payload) ==
    [fenced |-> TRUE, lead |-> lead, long |-> FALSE, payload |-> payload,
     close |-> close, cut |-> FALSE]

\* a str value holding a response text; n = 1 when cut to [:500] + "..."
VRaw(text, cut) == [t |-> "str", s |-> <<"response">>, n |-> IF cut THEN 1 ELSE 0, m |-> text]

\* _extract_json_from_response: response[start:end].strip() if a ```json
\* marker is present, else the whole text, stripped.  With no closing
\* fence find() returns -1 and the slice ends before the last character of
\* the text: the blank or the other character that follows the payload, or
\* the last character of the payload.
_extract_json_from_response(response) ==
    IF response.fenced
    THEN [fenced |-> FALSE, lead |-> FALSE, long |-> response.long,
          payload |-> response.payload, close |-> "end",
          cut |-> response.cut \/ response.close = "end"]
    ELSE [response EXCEPT !.close = IF @ = "blank" THEN "end" ELSE @]

\* str(e) of the RecursionError of the JSON scanner
RecursionMessage(k) ==
    <<"maximum recursion depth exceeded while decoding a JSON ",
      IF k = "deep_object" THEN "object" ELSE "array",
      " from a unicode string">>

\* json.loads: raises tells the exception ("none", "JSONDecodeError" or
\* "RecursionError", which is no ValueError), v the parsed value, msg the
\* str(e) of a RecursionError.  The scanner recurses into a deeply nested
\* text before it meets what follows it.  Of the payloads only the number
\* 42 is JSON without its last character (4).
json_loads(text) ==
    LET failed == [raises |-> "JSONDecodeError", v |-> VNone, msg |-> << >>]
        value(v) == [raises |-> "none", v |-> v, msg |-> << >>]
        k == text.payload.k
    IN  IF text.fenced \/ text.lead THEN failed
        ELSE IF k \in {"deep_array", "deep_object"}
        THEN [raises |-> "RecursionError", v |-> VNone, msg |-> RecursionMessage(k)]
        ELSE IF text.close = "char" THEN failed
        ELSE IF text.cut
        THEN IF k = "number" THEN value(VInt(4)) ELSE failed
        ELSE CASE k = "object"   -> value(VDict(text.payload.o))
               [] k = "array"    -> value(VList(1))
               [] k = "number"   -> value(VInt(42))
               [] k = "float"    -> value(VFloat(<<"4", ".", "5">>))
               [] k = "nan"      -> value(VFloat(<<"n", "a", "n">>))
               [] k = "infinity" -> value(VFloat(<<"i", "n", "f">>))
               [] k = "string"   -> value(VStr(ATIVA))
               [] k = "boolean"  -> value(VBool(TRUE))
               [] k = "null"     -> value(VNone)
               [] OTHER          -> failed

\* the characters json.dumps writes as a two-character escape
JsonShortEscapes == {"\"", "\\", "\n", "\r", "\t", "\f", ""}

\* the printable ASCII characters other than ", \ and the backquote
AsciiPrintable ==
    { " ", "!", "#", "$", "%", "&", "'", "(", ")", "*", "+", ",", "-", ".", "/",
      ":", ";", "<", "=", ">", "?", "@", "[", "]", "^", "_", "{", "|", "}", "~",
      "A", "B", "C", "D", "E", "F", "G", "H", "I", "J", "K", "L", "M",
      "N", "O", "P", "Q", "R", "S", "T", "U", "V", "W", "X", "Y", "Z",
      "a", "b", "c", "d", "e", "f", "g", "h", "i", "j", "k", "l", "m",
      "n", "o", "p", "q", "r", "s", "t", "u", "v", "w", "x", "y", "z" }
      \cup AsciiDigits

\* Number of characters json.dumps (ensure_ascii) writes for one element of
\* a str: an escape of 2, \uXXXX of 6 or a surrogate pair of 12 for a
\* character, and its own length for a run of plain ASCII text.
JsonChunkLength(c) ==
    IF c \in JsonShortEscapes THEN 2
    ELSE IF c \in Digits \cup Whitespace /\ Len(c) > 1
    THEN (IF Len(c) > 8 THEN 12 ELSE 6)
    ELSE IF Len(c) = 1 THEN (IF c \in AsciiPrintable THEN 1 ELSE 6)
    ELSE Len(c)

RECURSIVE JsonStrLength(_)
JsonStrLength(s) ==
    IF s = << >> THEN 2
    ELSE JsonChunkLength(Head(s)) + JsonStrLength(Tail(s))

\* len(json.dumps({"error": ..., "status": ..., "query_date": ...})): the
\* braces, three keys in quotes, three ": " and two ", ", and the values
ErrorJsonLength(o) ==
    2 + (7 + 8 + 12) + 3 * 2 + 2 * 2
      + JsonStrLength(o["error"].s) + JsonStrLength(o["status"].s)
      + 2 + IsoLength(o["query_date"])

\* json.dumps of the error dict
json_dumps(o) == Text(FALSE, FALSE, ErrorJsonLength(o) > 500, Payload("object", o))

\* _validate_json_response on a dict: status forced, query_date filled,
\* every None value replaced by "N/A" (an empty list stays an empty list)
_validate_json_response(json_data) ==
    LET stamped == [k \in DOMAIN json_data \cup {"status", "query_date"} |->
                      IF k = "status" THEN Tok("success")
                      ELSE IF k \in DOMAIN json_data THEN json_data[k]
                      ELSE Now]
    IN  [k \in DOMAIN stamped |->
            IF stamped[k] = VNone THEN VStr(NA)
            ELSE IF stamped[k].t = "list" /\ stamped[k].n = 0 THEN VList(0)
            ELSE stamped[k]]

\* type(v).__name__
TypeName(v) == IF v.t = "none" THEN "NoneType" ELSE v.t

\* str(e) of the TypeError of v[key] = ... on a value that is not a dict
ItemAssignmentError(v) ==
    IF v.t = "list" THEN VStr(<<"list indices must be integers or slices, not str">>)
    ELSE VStr(<<"'", TypeName(v), "' object does not support item assignment">>)

\* the record every operation returns for a cnpj that fails validation;
\* verify_cnpj_status adds cnpj_valid = False
InvalidCnpjRecord(operation, c) ==
    IF operation = "verify_cnpj_status"
    THEN [error |-> Tok("CNPJ inválido"), cnpj_provided |-> VStr(c),
          cnpj_valid |-> VBool(FALSE), status |-> Tok("error")]
    ELSE [error |-> Tok("CNPJ inválido"), cnpj_provided |-> VStr(c),
          status |-> Tok("error")]

\* check_dealer_reputation and check_legal_issues, from the returned text on
TextCheckRecord(result_text, c, name) ==
    LET loaded == json_loads(_extract_json_from_response(result_text)) IN
    IF loaded.raises = "JSONDecodeError"
    THEN [cnpj |-> VStr(_format_cnpj(c)), company_name |-> name,
          raw_response |-> VRaw(result_text, FALSE),
          status |-> Tok("success_text"), query_date |-> Now]
    ELSE IF loaded.raises = "RecursionError"
    THEN [cnpj |-> VStr(_format_cnpj(c)), error |-> VStr(loaded.msg),
          status |-> Tok("error"), query_date |-> Now]
    ELSE IF loaded.v.t # "dict"
    THEN [cnpj |-> VStr(_format_cnpj(c)), error |-> ItemAssignmentError(loaded.v),
          status |-> Tok("error"), query_date |-> Now]
    ELSE _validate_json_response(loaded.v.m)

\* verify_cnpj_status keeping a cnpj_valid the response supplies
StatusCheckRecordKeepsFlag(result_text, c) ==
    LET loaded == json_loads(_extract_json_from_response(result_text)) IN
    IF loaded.raises = "JSONDecodeError"
    THEN [cnpj |-> VStr(_format_cnpj(c)), cnpj_valid |-> VBool(TRUE),
          raw_response |-> VRaw(result_text, FALSE),
          status |-> Tok("success_text"), query_date |-> Now]
    ELSE IF loaded.raises = "RecursionError"
    THEN [cnpj |-> VStr(_format_cnpj(c)), cnpj_valid |-> VBool(TRUE),
          error |-> VStr(loaded.msg),
          status |-> Tok("error"), query_date |-> Now]
    ELSE IF loaded.v.t # "dict"
    THEN [cnpj |-> VStr(_format_cnpj(c)), cnpj_valid |-> VBool(TRUE),
          error |-> ItemAssignmentError(loaded.v),
          status |-> Tok("error"), query_date |-> Now]
    ELSE _validate_json_response(
            [k \in DOMAIN loaded.v.m \cup {"cnpj_valid"} |->
                IF k \in DOMAIN loaded.v.m THEN loaded.v.m[k] ELSE VBool(TRUE)])

\* verify_cnpj_status, from the returned text on
StatusCheckRecord(result_text, c) ==
    LET loaded == json_loads(_extract_json_from_response(result_text)) IN
    IF loaded.raises = "JSONDecodeError"
    THEN [cnpj |-> VStr(_format_cnpj(c)), cnpj_valid |-> VBool(TRUE),
          raw_response |-> VRaw(result_text, FALSE),
          status |-> Tok("success_text"), query_date |-> Now]
    ELSE IF loaded.raises = "RecursionError"
    THEN [cnpj |-> VStr(_format_cnpj(c)), cnpj_valid |-> VBool(TRUE),
          error |-> VStr(loaded.msg),
          status |-> Tok("error"), query_date |-> Now]
    ELSE IF loaded.v.t # "dict"
    THEN [cnpj |-> VStr(_format_cnpj(c)), cnpj_valid |-> VBool(TRUE),
          error |-> ItemAssignmentError(loaded.v),
          status |-> Tok("error"), query_date |-> Now]
    ELSE _validate_json_response(
            [k \in DOMAIN loaded.v.m \cup {"cnpj_valid"} |->
                IF k = "cnpj_valid" THEN VBool(TRUE) ELSE loaded.v.m[k]])

\* not v, for v None or a str: None and the empty str
Falsy(v) == v = VNone \/ (v.t = "str" /\ \A i \in 1..Len(v.s) : v.s[i] = "")

ImagePlaceholder == 
    [k \in {"url", "description", "source", "verified"} |->
        IF k = "verified" THEN VBool(FALSE) ELSE Tok("N/A")]

SocialPlaceholder(second, third) ==
    [k \in {"url", second, third, "recent_activity"} |-> Tok("N/A")]

\* search_business_images, from the returned text on: the extracted JSON is
\* a str, never a dict, so the fallback record is what it returns
ImagesCheckRecord(response_text, c, name) ==
    LET extracted == _extract_json_from_response(response_text) IN
    [status |-> Tok("partial_success"),
     cnpj |-> VStr(_format_cnpj(c)),
     company_name |-> IF Falsy(name) THEN Tok("N/A") ELSE name,
     business_images |->
        VDict([k \in {"facade", "logo", "interior", "staff", "vehicles", "location"} |->
                  VDict(ImagePlaceholder)]),
     image_analysis |->
        VDict([total_images_found |-> VInt(0), verified_images |-> VInt(0),
               legitimacy_indicators |-> VList(0), red_flags |-> VList(1),
               visual_consistency |-> Tok("N/A"), business_appearance |-> Tok("N/A")]),
     social_media_presence |->
        VDict([instagram |-> VDict(SocialPlaceholder("followers", "posts")),
               facebook |-> VDict(SocialPlaceholder("likes", "reviews"))]),
     raw_response |-> VRaw(response_text, response_text.long),
     query_date |-> Now]

\* the record a check returns once _make_search_request has returned text
CheckRecord(kind, text, c, name) ==
    CASE kind = "cnpj_status"     -> StatusCheckRecord(text, c)
      [] kind = "reputation"      -> TextCheckRecord(text, c, name)
      [] kind = "legal_issues"    -> TextCheckRecord(text, c, name)
      [] kind = "business_images" -> ImagesCheckRecord(text, c, name)

\* the fields the prompt of each check asks for as JSON arrays
ListFields(kind) ==
    CASE kind = "cnpj_status"     -> {"socios", "red_flags"}
      [] kind = "reputation"      -> {"main_issues", "red_flags", "sources_checked"}
      [] kind = "legal_issues"    -> {"criminal_cases", "civil_cases", "investigations",
                                      "sanctions", "fraud_indicators", "sources_found"}
      [] kind = "business_images" -> {}

\* the operation label each check passes to _make_search_request
OperationLabel(kind) ==
    CASE kind = "cnpj_status"     -> "check_legal_issues"
      [] kind = "reputation"      -> "verify_cnpj_status"
      [] kind = "legal_issues"    -> "check_dealer_reputation"
      [] kind = "business_images" -> "comprehensive_check"

\* the JSON text _make_search_request returns when both attempts failed
ErrorJson(e, now) ==
    json_dumps([error |-> VStr(<<"Erro ao consultar API: ">> \o e),
                status |-> Tok("error"), query_date |-> now])

(***************************************************************************)
(* Cost tracking.  The prices are kept in millionths of a dollar and the   *)
(* costs in billionths, so that (tokens / 1000) * price loses no fraction. *)
(***************************************************************************)
SearchModel == "gpt-4o-search-preview"
FallbackModel == "gpt-4o"

\* PRICING, in millionths of a dollar per 1K tokens and per search; a
\* model the table does not hold is outside its DOMAIN
PRICING ==
    [model \in {"gpt-4o", "gpt-4o-2024-08-06", "gpt-4o-search-preview", "gpt-4o-mini"} |->
        CASE model = "gpt-4o"                -> [input |-> 3000, output |-> 10000]
          [] model = "gpt-4o-2024-08-06"     -> [input |-> 2500, output |-> 10000]
          [] model = "gpt-4o-search-preview" -> [input |-> 3000, output |-> 10000,
                                                 search_cost |-> 20000]
          [] model = "gpt-4o-mini"           -> [input |-> 150, output |-> 600]]

\* _calculate_cost, in billionths of a dollar: 0 for a model without
\* prices; the search cost is added when the name holds "search" (of the
\* priced models, the search model) and the entry has a search_cost
_calculate_cost(model, input_tokens, output_tokens, search_count) ==
    IF model \notin DOMAIN PRICING THEN 0
    ELSE LET pricing == PRICING[model] IN
         input_tokens * pricing.input
           + output_tokens * pricing.output
           + (IF model = SearchModel /\ "search_cost" \in DOMAIN pricing
              THEN search_count * pricing.search_cost * 1000 ELSE 0)

RequestInfo(model, usage, search_count, operation) ==
    [timestamp |-> "<now>", model |-> model,
     input_tokens |-> usage.prompt_tokens,
     output_tokens |-> usage.completion_tokens,
     total_tokens |-> usage.prompt_tokens + usage.completion_tokens,
     cost_usd |-> _calculate_cost(model, usage.prompt_tokens,
                                  usage.completion_tokens, search_count),
     operation |-> operation]

(***************************************************************************)
(* What the API can do with a call: raise, or answer with a message        *)
(* content (a text, or None) and a usage (present or None).                *)
(***************************************************************************)
Usage == [prompt_tokens |-> 2000, completion_tokens |-> 1000]

ObjFlat ==
    [situacao_cadastral |-> VStr(ATIVA), reputation_score |-> VStr(<<"3", "0">>),
     risk_level |-> VStr(ALTO), red_flags |-> VList(0),
     status |-> Tok("error"), cnpj_valid |-> VBool(FALSE)]

ObjNulls ==
    [company_data |-> VNone, capital_social |-> VNone, query_date |-> Tok("2020-01-01")]

\* a registration answer whose list of partners and whose capital are null
ObjNullList ==
    [situacao_cadastral |-> VStr(ATIVA), socios |-> VNone, red_flags |-> VList(0),
     capital_social |-> VNone]

ObjNested ==
    [company_data |-> VDict([situacao_cadastral |-> VStr(ATIVA)]),
     reputation_score |-> VInt(30), risk_level |-> VStr(BAIXO), socios |-> VList(2)]

Prose == Text(FALSE, TRUE, FALSE, Payload("none", EmptyMap))

AllTexts ==
    { Text(FALSE, FALSE, FALSE, Payload("object", o)) : o \in {ObjFlat, ObjNulls, ObjNullList, ObjNested, EmptyMap} }
      \cup { Text(TRUE, lead, FALSE, Payload("object", o)) :
                lead \in BOOLEAN, o \in {ObjFlat, ObjNested} }
      \cup { Text(FALSE, TRUE, FALSE, Payload("object", ObjFlat)) }
      \cup { Text(FALSE, FALSE, FALSE, Payload(k, EmptyMap)) :
                k \in {"array", "number", "float", "string", "boolean", "null", "none",
                       "nan", "infinity"} }
      \cup { Text(FALSE, FALSE, TRUE, Payload("deep_array", EmptyMap)),
             OpenFence(FALSE, "char", Payload("object", ObjFlat)),
             WithClose(Text(FALSE, FALSE, FALSE, Payload("object", ObjFlat)), "char") }
      \cup { OpenFence(FALSE, "end", Payload("object", ObjFlat)),
             OpenFence(TRUE, "end", Payload("object", ObjNested)),
             OpenFence(FALSE, "blank", Payload("object", ObjFlat)),
             OpenFence(FALSE, "end", Payload("number", EmptyMap)) }
      \cup { Text(TRUE, TRUE, FALSE, Payload("array", EmptyMap)) }
      \cup { Prose, Text(FALSE, TRUE, TRUE, Payload("none", EmptyMap)) }

\* str(e) of the exceptions the calls raise
ApiError == <<"APIError">>

LongApiError ==
    << "Error code: 429 - {'error': {'message': 'You exceeded your ",
       "current quota, please check your plan and billing details. ",
       "For more information on this error, read the docs: ",
       "https://platform.openai.com/docs/guides/error-codes/api-",
       "errors. If the problem persists, contact us through the help",
       " center at help.openai.com and include the request ID of the",
       " failed request in your message so that it can be traced.', ",
       "'type': 'insufficient_quota', 'param': None, 'code': ",
       "'insufficient_quota'}}" >>

\* a message of 405 characters: the error JSON text has 504 characters,
\* or 497 when the clock is read on a whole second
MidApiError ==
    << "Error code: 429 - {'error': {'message': 'You exceeded your ",
       "current quota, please check your plan and billing details. ",
       "For more information on this error, read the docs: ",
       "https://platform.openai.com/docs/guides/error-codes/api-",
       "errors. If the problem persists, contact us through the help",
       " center at help.openai.com with the ID 042', 'type': ",
       "'insufficient_quota', 'param': None, 'code': ",
       "'insufficient_quota'}}" >>

\* str(e) of the TypeError of len(None)
NoLenError == <<"object of type 'NoneType' has no len()">>

RaiseWith(msg) ==
    [kind |-> "raise", content |-> FALSE, text |-> Prose, usage |-> FALSE, msg |-> msg]

Raise == RaiseWith(ApiError)

Answer(text, usage) ==
    [kind |-> "response", content |-> TRUE, text |-> text, usage |-> usage,
     msg |-> << >>]

NoContent ==
    [kind |-> "response", content |-> FALSE, text |-> Prose, usage |-> TRUE,
     msg |-> NoLenError]

\* what datetime.now() gives when the error JSON text is built; the
\* reading on a whole second is drawn for the four single checks
ClockReadings(o) ==
    IF o = "comprehensive_check" THEN { Now } ELSE { Now, NowOnWholeSecond }

\* outcomes of the call to the search model
SearchOutcomes(o) ==
    IF o = "comprehensive_check"
    THEN { Raise } \cup { Answer(Text(FALSE, FALSE, FALSE, Payload("object", ob)), TRUE) :
                            ob \in {ObjFlat, ObjNulls} }
    ELSE { Raise, NoContent }
           \cup { Answer(t, TRUE) : t \in AllTexts }
           \cup { Answer(Text(FALSE, FALSE, FALSE, Payload("object", ObjFlat)), FALSE) }

\* outcomes of the call to the fallback model
FallbackOutcomes(o) ==
    IF o = "comprehensive_check"
    THEN { Raise, Answer(Text(TRUE, TRUE, FALSE, Payload("object", ObjNested)), TRUE) }
    ELSE { Raise, RaiseWith(LongApiError), RaiseWith(MidApiError), NoContent,
           Answer(Text(FALSE, FALSE, FALSE, Payload("object", ObjFlat)), TRUE),
           Answer(Text(FALSE, FALSE, FALSE, Payload("object", ObjNulls)), FALSE),
           Answer(Prose, TRUE) }

(***************************************************************************)
(* The operations of the checker.                                          *)
(***************************************************************************)
KindOrder == <<"cnpj_status", "reputation", "legal_issues", "business_images">>

Operations ==
    {"verify_cnpj_status", "check_dealer_reputation", "check_legal_issues",
     "search_business_images", "comprehensive_check"}

\* the check coroutine behind each key of checks_performed
OperationOf(kind) ==
    CASE kind = "cnpj_status"     -> "verify_cnpj_status"
      [] kind = "reputation"      -> "check_dealer_reputation"
      [] kind = "legal_issues"    -> "check_legal_issues"
      [] kind = "business_images" -> "search_business_images"

OperationCnpjs ==
    { <<"1","1",".","2","2","2",".","3","3","3","/","0","0","0","1","-","8","1">>,
      <<"1","1","2","2","2","3","3","3","0","0","0","1","8","1">>,
      <<"1","1",".","2","2","2",".","3","3","3","/","0","0","0","1","-","8","0">>,
      <<"1","2","3">> }

\* identifiers written with the digits of another script, drawn for the
\* four single checks: the identifier above in Arabic-Indic digits, and
\* thirteen ASCII zeros followed by an Arabic-Indic zero
ForeignOperationCnpjs ==
    { InScript(<<"1","1","2","2","2","3","3","3","0","0","0","1","8","1">>, ArabicIndic, 1),
      InScript(Repeated("0"), ArabicIndic, 14) }

CompanyNames == { VNone, Tok("Auto Loja") }

\* the arguments of comprehensive_check: a valid identifier without
\* punctuation, an invalid one with it, one that is too short; one name
ComprehensiveCnpjs ==
    { <<"1","1","2","2","2","3","3","3","0","0","0","1","8","1">>,
      <<"1","1",".","2","2","2",".","3","3","3","/","0","0","0","1","-","8","0">>,
      <<"1","2","3">> }

ComprehensiveNames == { Tok("Auto Loja") }

\* the names of the four single checks: the dashboard passes '' for a field
\* left empty
SingleCheckNames == CompanyNames \cup { VStr(<< >>) }

\* one request tracked by an earlier operation
EarlierRequest == RequestInfo(FallbackModel, Usage, 0, "check_legal_issues")

\* the local result_text / response_text of a check before it is assigned
NoText == Text(FALSE, FALSE, FALSE, Payload("unassigned", EmptyMap))

\* attempts: how each API call of the coroutine ended, in order ("raise",
\* "no_content", "text", or "text_no_usage" for a text whose response had
\* no usage and was not tracked);
\* text: what _make_search_request returned to the check
IdleTask ==
    [pc |-> "idle", rec |-> EmptyMap, exc |-> "none", attempts |-> << >>,
     text |-> NoText]

Init ==
    /\ op \in Operations
    /\ cnpj \in IF op = "comprehensive_check" THEN ComprehensiveCnpjs
                ELSE OperationCnpjs \cup ForeignOperationCnpjs
    /\ valid = "none"
    /\ formatted = <<"?">>
    /\ data = NoData
    /\ risk = NoRisk
    /\ opc = "called"
    /\ company_name \in IF op = "comprehensive_check" THEN ComprehensiveNames
                        ELSE SingleCheckNames
    /\ tasks = [k \in CheckKeys |-> IdleTask]
    /\ api_log = << >>
    /\ request_history \in { << >>, <<EarlierRequest>> }
    /\ total_cost = IF request_history = << >> THEN 0 ELSE EarlierRequest.cost_usd
    /\ result = NoResult

Settled(k) == tasks[k].pc \in {"done", "raised"}

\* position of a kind in the task list handed to asyncio.gather
IndexOf(kind) == CHOOSE i \in 1..4 : KindOrder[i] = kind

\* the coroutines take their first step in the order they were handed to
\* gather; a coroutine whose create call returns or raises without
\* suspending goes on before the next one starts
MayStart(k) ==
    /\ \/ op = OperationOf(k) /\ opc = "called" /\ tasks[k].pc = "idle"
       \/ op = "comprehensive_check" /\ opc = "gathering" /\ tasks[k].pc = "new"
    /\ \A i \in 1..(IndexOf(k) - 1) : tasks[KindOrder[i]].pc # "new"

\* what the caller of a single check gets when its coroutine finishes
ResultAfter(k, rec) ==
    IF op = OperationOf(k) THEN [kind |-> "record", rec |-> rec] ELSE result

OpcAfter(k) == IF op = OperationOf(k) THEN "done" ELSE opc

\* _track_request assigning the cost of the request to the total
TrackRequestOverwrites(model, operation, usage_present) ==
    IF usage_present
    THEN /\ request_history' =
              Append(request_history,
                     RequestInfo(model, Usage, IF model = SearchModel THEN 1 ELSE 0, operation))
         /\ total_cost' =
              _calculate_cost(model, Usage.prompt_tokens, Usage.completion_tokens,
                              IF model = SearchModel THEN 1 ELSE 0)
    ELSE UNCHANGED <<request_history, total_cost>>

\* _track_request: one entry appended, its cost added to the total
TrackRequest(model, operation, usage_present) ==
    IF usage_present
    THEN /\ request_history' =
              Append(request_history,
                     RequestInfo(model, Usage, IF model = SearchModel THEN 1 ELSE 0, operation))
         /\ total_cost' = total_cost
              + _calculate_cost(model, Usage.prompt_tokens, Usage.completion_tokens,
                                IF model = SearchModel THEN 1 ELSE 0)
    ELSE UNCHANGED <<request_history, total_cost>>

\* the validation gate placed after the request instead of before it
CheckRejectsBug(k) ==
    /\ MayStart(k)
    /\ ~_validate_cnpj(cnpj)
    /\ tasks' = [tasks EXCEPT ![k].pc = "done",
                              ![k].rec = InvalidCnpjRecord(OperationOf(k), cnpj)]
    /\ result' = ResultAfter(k, InvalidCnpjRecord(OperationOf(k), cnpj))
    /\ opc' = OpcAfter(k)
    /\ api_log' = Append(api_log, [kind |-> k, model |-> SearchModel])
    /\ TrackRequest(SearchModel, OperationLabel(k), TRUE)
    /\ UNCHANGED <<cnpj, valid, formatted, data, risk, op, company_name>>

\* a check called with an invalid cnpj: the error record, nothing else
CheckRejects(k) ==
    /\ MayStart(k)
    /\ ~_validate_cnpj(cnpj)
    /\ tasks' = [tasks EXCEPT ![k].pc = "done",
                              ![k].rec = InvalidCnpjRecord(OperationOf(k), cnpj)]
    /\ result' = ResultAfter(k, InvalidCnpjRecord(OperationOf(k), cnpj))
    /\ opc' = OpcAfter(k)
    /\ UNCHANGED <<cnpj, valid, formatted, data, risk, op, company_name, api_log,
                   total_cost, request_history>>

\* a check called with a valid cnpj: the prompt is built and the search
\* model is called; the coroutine waits for the answer
CheckStarts(k) ==
    /\ MayStart(k)
    /\ _validate_cnpj(cnpj)
    /\ tasks' = [tasks EXCEPT ![k].pc = "await_search"]
    /\ api_log' = Append(api_log, [kind |-> k, model |-> SearchModel])
    /\ opc' = IF op = OperationOf(k) THEN "running" ELSE opc
    /\ UNCHANGED <<cnpj, valid, formatted, data, risk, op, company_name,
                   total_cost, request_history, result>>

\* an exception leaves the check coroutine before its try block is entered
CheckRaises(k) ==
    /\ MayStart(k)
    /\ _validate_cnpj(cnpj)
    /\ tasks' = [tasks EXCEPT ![k].pc = "raised", ![k].exc = "RuntimeError: boom"]
    /\ result' = IF op = OperationOf(k)
                 THEN [kind |-> "raised", exc |-> "RuntimeError: boom"] ELSE result
    /\ opc' = OpcAfter(k)
    /\ UNCHANGED <<cnpj, valid, formatted, data, risk, op, company_name, api_log,
                   total_cost, request_history>>

\* the check finishes with the text _make_search_request returned
Finish(k, text, outcome) ==
    LET rec == CheckRecord(k, text, cnpj, company_name) IN
    /\ tasks' = [tasks EXCEPT ![k].pc = "done", ![k].rec = rec,
                              ![k].attempts = Append(@, outcome),
                              ![k].text = text]
    /\ result' = ResultAfter(k, rec)
    /\ opc' = OpcAfter(k)

\* the search model answered with a text: tracked, returned, parsed
SearchReturns(k) ==
    /\ tasks[k].pc = "await_search"
    /\ \E o \in SearchOutcomes(op) :
         /\ o.kind = "response" /\ o.content
         /\ TrackRequest(SearchModel, OperationLabel(k), o.usage)
         /\ Finish(k, o.text, IF o.usage THEN "text" ELSE "text_no_usage")
    /\ UNCHANGED <<cnpj, valid, formatted, data, risk, op, company_name, api_log>>

\* a failed search attempt answered with the error JSON text at once
SearchFailsGivesUp(k) ==
    /\ tasks[k].pc = "await_search"
    /\ \E o \in SearchOutcomes(op) :
         /\ o.kind = "raise" \/ ~o.content
         /\ TrackRequest(SearchModel, OperationLabel(k), o.kind = "response" /\ o.usage)
         /\ Finish(k, ErrorJson(ApiError, Now),
                   IF o.kind = "raise" THEN "raise" ELSE "no_content")
    /\ UNCHANGED <<cnpj, valid, formatted, data, risk, op, company_name, api_log>>

\* the search model call raised, or its message had no content and
\* len(result) raised after the request was tracked: the fallback is called
SearchFails(k) ==
    /\ tasks[k].pc = "await_search"
    /\ \E o \in SearchOutcomes(op) :
         /\ o.kind = "raise" \/ ~o.content
         /\ TrackRequest(SearchModel, OperationLabel(k), o.kind = "response" /\ o.usage)
         /\ tasks' = [tasks EXCEPT ![k].pc = "await_fallback",
                                   ![k].attempts = Append(@, IF o.kind = "raise" THEN "raise"
                                                             ELSE "no_content")]
    /\ api_log' = Append(api_log, [kind |-> k, model |-> FallbackModel])
    /\ UNCHANGED <<cnpj, valid, formatted, data, risk, op, opc, company_name, result>>

\* the fallback model answered with a text: tracked, returned, parsed
FallbackReturns(k) ==
    /\ tasks[k].pc = "await_fallback"
    /\ \E o \in FallbackOutcomes(op) :
         /\ o.kind = "response" /\ o.content
         /\ TrackRequest(FallbackModel, OperationLabel(k), o.usage)
         /\ Finish(k, o.text, IF o.usage THEN "text" ELSE "text_no_usage")
    /\ UNCHANGED <<cnpj, valid, formatted, data, risk, op, company_name, api_log>>

\* a failed fallback call followed by one more call of the fallback model
FallbackFailsRetrying(k) ==
    /\ tasks[k].pc = "await_fallback"
    /\ Len(tasks[k].attempts) < 3
    /\ \E o \in FallbackOutcomes(op) :
         /\ o.kind = "raise" \/ ~o.content
         /\ TrackRequest(FallbackModel, OperationLabel(k), o.kind = "response" /\ o.usage)
         /\ tasks' = [tasks EXCEPT ![k].attempts =
                         Append(@, IF o.kind = "raise" THEN "raise" ELSE "no_content")]
    /\ api_log' = Append(api_log, [kind |-> k, model |-> FallbackModel])
    /\ UNCHANGED <<cnpj, valid, formatted, data, risk, op, opc, company_name, result>>

\* the fallback failed too: _make_search_request returns the error JSON
\* text, which the check then handles like any other text
FallbackFails(k) ==
    /\ tasks[k].pc = "await_fallback"
    /\ \E o \in FallbackOutcomes(op) :
         /\ o.kind = "raise" \/ ~o.content
         /\ TrackRequest(FallbackModel, OperationLabel(k), o.kind = "response" /\ o.usage)
         /\ \E now \in ClockReadings(op) :
              Finish(k, ErrorJson(o.msg, now),
                   IF o.kind = "raise" THEN "raise" ELSE "no_content")
    /\ UNCHANGED <<cnpj, valid, formatted, data, risk, op, company_name, api_log>>

\* comprehensive_check, up to the await of asyncio.gather
ComprehensiveRejects ==
    /\ op = "comprehensive_check" /\ opc = "called"
    /\ ~_validate_cnpj(cnpj)
    /\ result' = [kind |-> "record", rec |-> InvalidCnpjRecord(op, cnpj)]
    /\ opc' = "done"
    /\ UNCHANGED <<cnpj, valid, formatted, data, risk, op, company_name, tasks,
                   api_log, total_cost, request_history>>

ComprehensiveGathers ==
    /\ op = "comprehensive_check" /\ opc = "called"
    /\ _validate_cnpj(cnpj)
    /\ tasks' = [k \in CheckKeys |-> [IdleTask EXCEPT !.pc = "new"]]
    /\ opc' = "gathering"
    /\ UNCHANGED <<cnpj, valid, formatted, data, risk, op, company_name,
                   api_log, total_cost, request_history, result>>

\* results[i] if it is no Exception, else {"error": str(results[i])}
GatheredEntry(task) ==
    IF task.pc = "raised" THEN [error |-> Tok(task.exc)] ELSE task.rec

\* gather called without return_exceptions
ReturnExceptionsOff == FALSE

\* the return_exceptions argument of asyncio.gather in comprehensive_check
return_exceptions == TRUE

\* asyncio.gather resumes its awaiter when every awaitable has finished, an
\* exception counting as a result; without return_exceptions it resumes
\* the awaiter with the first exception an awaitable raises, while the
\* other awaitables run on
GatherRaises == ~return_exceptions /\ \E k \in CheckKeys : tasks[k].pc = "raised"

\* consolidation storing the outcomes of the first two tasks under each
\* other's key
ComprehensiveConsolidatesSwapped ==
    /\ op = "comprehensive_check" /\ opc = "gathering"
    /\ \A k \in CheckKeys : Settled(k)
    /\ data' = [k \in CheckKeys |->
                  GatheredEntry(tasks[CASE k = "cnpj_status" -> "reputation"
                                        [] k = "reputation"  -> "cnpj_status"
                                        [] OTHER             -> k])]
    /\ risk' = _analyze_consolidated_risk(data')
    /\ formatted' = _format_cnpj(cnpj)
    /\ result' = IF risk'.raised = "no"
                 THEN [kind |-> "consolidated", cnpj |-> VStr(formatted'),
                       company_name |-> company_name, analysis_date |-> Now]
                 ELSE [kind |-> "raised", exc |-> risk'.raised]
    /\ opc' = "done"
    /\ UNCHANGED <<cnpj, valid, op, company_name, tasks, api_log,
                   total_cost, request_history>>

\* comprehensive_check, after gather: consolidation and risk analysis, or
\* the exception gather raised
ComprehensiveConsolidates ==
    /\ op = "comprehensive_check" /\ opc = "gathering"
    /\ GatherRaises \/ \A k \in CheckKeys : Settled(k)
    /\ IF GatherRaises
       THEN /\ result' = [kind |-> "raised",
                          exc  |-> tasks[CHOOSE k \in CheckKeys : tasks[k].pc = "raised"].exc]
            /\ UNCHANGED <<data, risk, formatted>>
       ELSE /\ data' = [k \in CheckKeys |-> GatheredEntry(tasks[k])]
            /\ risk' = _analyze_consolidated_risk(data')
            /\ formatted' = _format_cnpj(cnpj)
            /\ result' = IF risk'.raised = "no"
                         THEN [kind |-> "consolidated", cnpj |-> VStr(formatted'),
                               company_name |-> company_name, analysis_date |-> Now]
                         ELSE [kind |-> "raised", exc |-> risk'.raised]
    /\ opc' = "done"
    /\ UNCHANGED <<cnpj, valid, op, company_name, tasks, api_log,
                   total_cost, request_history>>

\* reset_cost_tracking: a plain method, called between two operations or
\* while an operation awaits
ResetCostTracking ==
    /\ total_cost' = 0
    /\ request_history' = << >>
    /\ UNCHANGED <<cnpj, valid, formatted, data, risk, op, opc, company_name,
                   tasks, api_log, result>>

Next ==
    \/ \E k \in CheckKeys : CheckRejects(k)
    \/ \E k \in CheckKeys : CheckStarts(k)
    \/ \E k \in CheckKeys : CheckRaises(k)
    \/ \E k \in CheckKeys : SearchReturns(k)
    \/ \E k \in CheckKeys : SearchFails(k)
    \/ \E k \in CheckKeys : FallbackReturns(k)
    \/ \E k \in CheckKeys : FallbackFails(k)
    \/ ComprehensiveRejects
    \/ ComprehensiveGathers
    \/ ComprehensiveConsolidates
    \/ ResetCostTracking

Spec == Init /\ [][Next]_vars

\* the chat.completions.create calls issued for one check, in order
CallsOf(k) == SelectSeq(api_log, LAMBDA e : e.kind = k)

\* the attempts that did not return a text to the check
FailedAttempts == {"raise", "no_content"}

HasStatus(rec, status) == "status" \in DOMAIN rec /\ rec["status"] = Tok(status)

ComprehensiveDone == op = "comprehensive_check" /\ opc = "done" /\ _validate_cnpj(cnpj)

(***************************************************************************)
(* C2: in a comprehensive_check run on a valid identifier where exactly    *)
(* one of the four checks raises an exception, a consolidated result is    *)
(* still returned, the other three entries of checks_performed hold the    *)
(* records their checks produced, and the entry of the failing check is    *)
(* marked status = error.                                                  *)
(***************************************************************************)
C2_OneRaised == Cardinality({k \in CheckKeys : tasks[k].pc = "raised"}) = 1

C2_RaisedCheckMarkedError ==
    (ComprehensiveDone /\ C2_OneRaised) =>
      /\ result.kind = "consolidated"
      /\ \A k \in CheckKeys :
           IF tasks[k].pc = "raised"
           THEN HasStatus(data[k], "error")
           ELSE data[k] = tasks[k].rec

(***************************************************************************)
(* C3: for each of the four check kinds run on a valid identifier, when    *)
(* the language-model call fails (every model attempt raises), the record  *)
(* returned by the check has status = error and carries an error field     *)
(* describing the failure.                                                 *)
(***************************************************************************)
C3_CallFailureGivesErrorRecord ==
    \A k \in CheckKeys :
      (tasks[k].pc = "done" /\ tasks[k].attempts = <<"raise", "raise">>) =>
        /\ HasStatus(tasks[k].rec, "error")
        /\ "error" \in DOMAIN tasks[k].rec

(***************************************************************************)
(* C6: for every valid identifier and every combination of outcomes of     *)
(* the four queries (JSON object, JSON with missing or malformed fields,   *)
(* non-JSON text, call failure), comprehensive_check returns a             *)
(* consolidated result holding all four checks_performed keys and a        *)
(* risk_analysis; no per-check query or parse error makes the              *)
(* comprehensive request itself fail.                                      *)
(***************************************************************************)
C6_NoCheckRaised == \A k \in CheckKeys : tasks[k].pc = "done"

C6_ComprehensiveAlwaysReturns ==
    (ComprehensiveDone /\ C6_NoCheckRaised) =>
      /\ result.kind = "consolidated"
      /\ DOMAIN data = CheckKeys
      /\ risk.raised = "no"

(***************************************************************************)
(* C7: when the identifier fails validation, each of verify_cnpj_status,   *)
(* check_dealer_reputation, check_legal_issues, search_business_images     *)
(* and comprehensive_check returns an error record (status = error,        *)
(* error = "CNPJ inválido") immediately, without issuing any               *)
(* language-model call, and leaves total_cost and request_history          *)
(* unchanged.  (Steps of the operation are those that change its position, *)
(* its tasks, the call log or its result; reset_cost_tracking is not one.) *)
(***************************************************************************)
C7_InvalidRejectedAtOnce ==
    [][ (~_validate_cnpj(cnpj) /\ <<opc, tasks, api_log, result>>' # <<opc, tasks, api_log, result>>) =>
          /\ opc = "called" /\ opc' = "done"
          /\ result'.kind = "record"
          /\ HasStatus(result'.rec, "error")
          /\ result'.rec["error"] = Tok("CNPJ inválido")
          /\ api_log' = << >>
          /\ total_cost' = total_cost
          /\ request_history' = request_history ]_vars

\* an invalid identifier was rejected while an earlier request stays tracked
C7_Witness ==
    /\ ~_validate_cnpj(cnpj)
    /\ opc = "done"
    /\ result.kind = "record"
    /\ result.rec["error"] = Tok("CNPJ inválido")
    /\ api_log = << >>
    /\ request_history = <<EarlierRequest>>
    /\ total_cost = EarlierRequest.cost_usd

(***************************************************************************)
(* C11: the risk tier is a function of the score with fixed thresholds:    *)
(* score >= 80 is "CRÍTICO", 50 <= score < 80 is "ALTO", 25 <= score < 50  *)
(* is "MÉDIO", score < 25 is "BAIXO" (24 BAIXO, 25 MÉDIO, 50 ALTO, 80      *)
(* CRÍTICO), and in every returned risk_analysis the risk_level is the     *)
(* tier of the reported (clamped) risk_score.                              *)
(***************************************************************************)
C11_Tier(score) ==
    CASE score >= 80               -> "CRÍTICO"
      [] score >= 50 /\ score < 80 -> "ALTO"
      [] score >= 25 /\ score < 50 -> "MÉDIO"
      [] score < 25                -> "BAIXO"

C11_TierOfReportedScore ==
    /\ \A score \in 0..(50 + 30 + 40) : RiskLevelOf(score) = C11_Tier(score)
    /\ Returned => risk.risk_level = C11_Tier(risk.risk_score)

\* registration and reputation fired: the score sits on the threshold 80
C11_Witness ==
    /\ Returned
    /\ risk.risk_score = 80
    /\ risk.risk_level = "CRÍTICO"
    /\ risk.risk_factors = <<RegistrationFactor, ReputationFactor>>

(***************************************************************************)
(* C12: for every risk_analysis that _analyze_consolidated_risk can        *)
(* produce, the pair (risk_score, risk_level) agrees with the score bands  *)
(* documented to users in the indicators resource and the dashboard        *)
(* sidebar: 0-24 BAIXO, 25-49 MÉDIO, 50-74 ALTO, 75-100 CRÍTICO.           *)
(***************************************************************************)
C12_DocumentedBand(score) ==
    IF score \in 0..24 THEN "BAIXO"
    ELSE IF score \in 25..49 THEN "MÉDIO"
    ELSE IF score \in 50..74 THEN "ALTO"
    ELSE IF score \in 75..100 THEN "CRÍTICO"
    ELSE "undocumented"

C12_AgreesWithDocumentedBands ==
    Returned => risk.risk_level = C12_DocumentedBand(risk.risk_score)

\* reputation and legal fired: 70, the producible score closest to the
\* documented edge 74 / 75
C12_Witness ==
    /\ Returned
    /\ risk.risk_score = 70
    /\ risk.risk_level = "ALTO"
    /\ risk.risk_factors = <<ReputationFactor, LegalFactor>>

\* the three checks that parse the response text with json.loads
ParsingChecks == {"cnpj_status", "reputation", "legal_issues"}

\* the check ran on a valid identifier and handled a returned text
Handled(k) == tasks[k].pc = "done" /\ _validate_cnpj(cnpj) /\ tasks[k].text # NoText

\* the text, after fenced-block extraction, is one JSON object and nothing else
ParsesAsObject(text) ==
    LET loaded == json_loads(_extract_json_from_response(text))
    IN  loaded.raises = "none" /\ loaded.v.t = "dict"

(***************************************************************************)
(* C13: for the registration-status, reputation and legal-issues checks    *)
(* on a valid identifier, whenever the response text (after fenced-block   *)
(* extraction) cannot be parsed as a JSON object (plain text, malformed    *)
(* JSON, or valid JSON that is not an object, such as an array or a        *)
(* scalar), the returned record has status = success_text and keeps the    *)
(* full original response text under raw_response; it is never reported    *)
(* as status = error.                                                      *)
(***************************************************************************)
C13_UnparseableGivesSuccessText ==
    \A k \in ParsingChecks :
      (Handled(k) /\ ~ParsesAsObject(tasks[k].text)) =>
        /\ HasStatus(tasks[k].rec, "success_text")
        /\ "raw_response" \in DOMAIN tasks[k].rec
        /\ tasks[k].rec["raw_response"] = VRaw(tasks[k].text, FALSE)

(***************************************************************************)
(* C14: after _validate_json_response normalizes a parsed JSON object,     *)
(* the record has status = success (overriding any status supplied in the  *)
(* response), has a query_date, and for every field of the record a null   *)
(* list field has become an empty list and a null scalar field has become  *)
(* the string "N/A".                                                       *)
(***************************************************************************)
C14_NullsNormalized ==
    \A k \in ParsingChecks :
      (Handled(k) /\ ParsesAsObject(tasks[k].text)) =>
        LET parsed == tasks[k].text.payload.o
            rec == tasks[k].rec
        IN  /\ HasStatus(rec, "success")
            /\ "query_date" \in DOMAIN rec
            /\ \A f \in DOMAIN parsed \ {"status"} :
                 parsed[f] = VNone =>
                   rec[f] = IF f \in ListFields(k) THEN VList(0) ELSE VStr(NA)

(***************************************************************************)
(* C15: for the visual-presence check on a valid identifier, the           *)
(* placeholder record (status = partial_success with every sub-field set   *)
(* to "N/A" / false / empty) is returned only when the response yields no  *)
(* parseable JSON structure; when the response contains a parseable JSON   *)
(* object, search_business_images returns a record carrying the parsed     *)
(* fields.                                                                 *)
(***************************************************************************)
C15_ParsedImagesReturned ==
    (Handled("business_images") /\ ParsesAsObject(tasks["business_images"].text)) =>
      LET parsed == tasks["business_images"].text.payload.o
          rec == tasks["business_images"].rec
      IN  /\ ~HasStatus(rec, "partial_success")
          /\ \A f \in DOMAIN parsed \ {"status", "query_date"} :
               f \in DOMAIN rec /\ rec[f] = parsed[f]

(***************************************************************************)
(* C16: every record returned by any of the four check operations, and     *)
(* every entry of checks_performed in a consolidated result, carries a     *)
(* status field whose value is one of success, success_text, error,        *)
(* partial_success, and a query_date field, in every outcome: invalid      *)
(* identifier, call failure, parse failure and a check that raised inside  *)
(* the gather.                                                             *)
(***************************************************************************)
C16_Stamped(rec) ==
    /\ "status" \in DOMAIN rec
    /\ rec["status"] \in { Tok(st) : st \in {"success", "success_text", "error",
                                             "partial_success"} }
    /\ "query_date" \in DOMAIN rec

C16_EveryRecordStamped ==
    /\ \A k \in CheckKeys : tasks[k].pc = "done" => C16_Stamped(tasks[k].rec)
    /\ result.kind = "consolidated" => \A k \in CheckKeys : C16_Stamped(data[k])

(***************************************************************************)
(* C22: the recommendation text and the next_steps list of a risk          *)
(* assessment are determined by the risk tier alone: any two inputs to     *)
(* _analyze_consolidated_risk that yield the same risk_level yield         *)
(* identical recommendation and next_steps, whichever risk factors fired,  *)
(* and next_steps has 3 entries for CRÍTICO and 4 for every other tier.    *)
(***************************************************************************)
\* one fixed input per tier: all three signals, registration alone,
\* reputation alone, none
C22_Reference(level) ==
    LET active == [company_data |-> VDict([situacao_cadastral |-> VStr(ATIVA)])]
        closed == [company_data |-> VDict([situacao_cadastral |-> VStr(BAIXADA)])]
        low    == [reputation_score |-> VStr(<<"3", "0">>)]
        high   == [risk_level |-> VStr(ALTO)]
    IN  CASE level = "CRÍTICO" ->
               [cnpj_status |-> closed, reputation |-> low, legal_issues |-> high]
          [] level = "ALTO" ->
               [cnpj_status |-> closed, reputation |-> EmptyMap, legal_issues |-> EmptyMap]
          [] level = "MÉDIO" ->
               [cnpj_status |-> active, reputation |-> low, legal_issues |-> EmptyMap]
          [] level = "BAIXO" ->
               [cnpj_status |-> active, reputation |-> EmptyMap, legal_issues |-> EmptyMap]

C22_TierDeterminesAdvice ==
    Returned =>
      LET reference == _analyze_consolidated_risk(C22_Reference(risk.risk_level)) IN
      /\ reference.risk_level = risk.risk_level
      /\ risk.recommendation = reference.recommendation
      /\ risk.next_steps = reference.next_steps
      /\ Len(risk.next_steps) = IF risk.risk_level = "CRÍTICO" THEN 3 ELSE 4

\* CRÍTICO reached with two factors only, not the three of the reference
C22_Witness ==
    /\ Returned
    /\ risk.risk_level = "CRÍTICO"
    /\ risk.risk_factors = <<RegistrationFactor, LegalFactor>>
    /\ Len(risk.next_steps) = 3

(***************************************************************************)
(* C26: in every risk_analysis, risk_factors is a subsequence of           *)
(* [registration factor, reputation factor, legal factor] in that fixed    *)
(* order with each factor at most once, and a factor is listed exactly     *)
(* when its weight was added, so risk_score = min(100, 50*[registration    *)
(* listed] + 30*[reputation listed] + 40*[legal listed]); the score        *)
(* depends on which factors are listed, not on their order.                *)
(***************************************************************************)
C26_Pick(take, factor) == IF take THEN <<factor>> ELSE << >>

C26_Subsequences ==
    { C26_Pick(a, RegistrationFactor) \o C26_Pick(b, ReputationFactor)
        \o C26_Pick(c, LegalFactor) : a \in BOOLEAN, b \in BOOLEAN, c \in BOOLEAN }

C26_Weights ==
    (IF Listed(RegistrationFactor) THEN 50 ELSE 0)
      + (IF Listed(ReputationFactor) THEN 30 ELSE 0)
      + (IF Listed(LegalFactor) THEN 40 ELSE 0)

C26_FactorsMatchScore ==
    Returned =>
      /\ risk.risk_factors \in C26_Subsequences
      /\ risk.risk_score = IF C26_Weights > 100 THEN 100 ELSE C26_Weights

\* all three listed in the fixed order: 120 accumulated, 100 reported
C26_Witness ==
    /\ Returned
    /\ risk.risk_factors = <<RegistrationFactor, ReputationFactor, LegalFactor>>
    /\ risk.risk_score = 100
    /\ "status" \notin DOMAIN data["reputation"]

(***************************************************************************)
(* C28: the risk assessment does not depend on the visual-presence check   *)
(* or on the status markers of the records: two consolidated inputs that   *)
(* agree on cnpj_status.company_data, reputation.reputation_score and      *)
(* legal_issues.risk_level yield identical risk_score, risk_level,         *)
(* risk_factors, recommendation and next_steps, whatever the               *)
(* business_images record and whatever each record's status.               *)
(***************************************************************************)
C28_Only(rec, field) ==
    IF field \in DOMAIN rec THEN [k \in {field} |-> rec[k]] ELSE EmptyMap

\* the input reduced to the three fields, with no business_images record
C28_Reduced ==
    [cnpj_status  |-> C28_Only(data["cnpj_status"], "company_data"),
     reputation   |-> C28_Only(data["reputation"], "reputation_score"),
     legal_issues |-> C28_Only(data["legal_issues"], "risk_level")]

C28_ImagesAndStatusIgnored ==
    Returned => risk = _analyze_consolidated_risk(C28_Reduced)

\* nothing fired although the image record carries an irregular
\* registration, a low score and a CRÍTICO level, and every record is
\* marked error
C28_Witness ==
    /\ Returned
    /\ risk.risk_factors = << >>
    /\ "risk_level" \in DOMAIN data["business_images"]
    /\ \A k \in CheckKeys : DictGet(data[k], "status") = VStr(<<"error">>)

(***************************************************************************)
(* C23: in comprehensive_check, under every interleaving of the four       *)
(* concurrently issued check tasks, _analyze_consolidated_risk runs only   *)
(* after all four tasks have completed or failed, and the failure of one   *)
(* task never cancels or aborts a sibling task.                            *)
(***************************************************************************)
C23_SiblingsUntouched ==
    \A k \in CheckKeys :
      (tasks[k].pc # "raised" /\ tasks'[k].pc = "raised") =>
        \A j \in CheckKeys \ {k} : tasks'[j] = tasks[j]

C23_AnalysisAfterAllSettled ==
    /\ [](op = "comprehensive_check" /\ risk # NoRisk => \A k \in CheckKeys : Settled(k))
    /\ [][risk' # risk => \A k \in CheckKeys : Settled(k)]_vars
    /\ [][C23_SiblingsUntouched]_vars
    /\ [](op = "comprehensive_check" /\ opc = "done" /\ _validate_cnpj(cnpj) =>
            /\ risk # NoRisk
            /\ \A k \in CheckKeys :
                 tasks[k].pc = "raised" \/ (tasks[k].pc = "done" /\ tasks[k].attempts # << >>))

\* the first task raised before any response arrived; its three siblings
\* went on to their answers, one of them through the fallback model
C23_Witness ==
    /\ ComprehensiveDone
    /\ risk # NoRisk /\ risk.raised = "no"
    /\ tasks["cnpj_status"].pc = "raised"
    /\ \A k \in CheckKeys \ {"cnpj_status"} : tasks[k].pc = "done"
    /\ Len(tasks["legal_issues"].attempts) = 2
    /\ Len(api_log) = 4

(***************************************************************************)
(* C24 as stated: nothing is retried automatically: within one check       *)
(* operation the language-model API is called at most once, and a failed   *)
(* API call is never followed by another API call for the same check.      *)
(***************************************************************************)
C24_AtMostOneCall == \A k \in CheckKeys : Len(CallsOf(k)) <= 1

(***************************************************************************)
(* C24, amended: within one check operation the API is called at most      *)
(* twice: the search-capable model once and, only after that attempt       *)
(* failed, the fallback model once; no model is called twice, and a        *)
(* failed fallback call is never followed by another call.                 *)
(***************************************************************************)
C24_OneCallPerModel ==
    \A k \in CheckKeys :
      /\ CallsOf(k) \in { << >>,
                          <<[kind |-> k, model |-> SearchModel]>>,
                          <<[kind |-> k, model |-> SearchModel],
                            [kind |-> k, model |-> FallbackModel]>> }
      /\ Len(tasks[k].attempts) <= Len(CallsOf(k))
      /\ Len(CallsOf(k)) = 2 => tasks[k].attempts[1] \in FailedAttempts
      /\ Len(tasks[k].attempts) = 2 => tasks[k].pc = "done"

\* a check whose two calls both raised, and that has returned
C24_Witness ==
    \E k \in CheckKeys :
      /\ Len(CallsOf(k)) = 2
      /\ tasks[k].attempts = <<"raise", "raise">>
      /\ tasks[k].pc = "done"
      /\ opc = "done"

(***************************************************************************)
(* C25: in every record returned by verify_cnpj_status, the cnpj_valid     *)
(* flag equals the result of _validate_cnpj on the input: false in the     *)
(* invalid-identifier error record, and true in every record produced      *)
(* after the validation gate (parse success, success_text and error        *)
(* outcomes alike), never overridable by a cnpj_valid value supplied in    *)
(* the model's response.                                                   *)
(***************************************************************************)
C25_FlagIsValidation ==
    tasks["cnpj_status"].pc = "done" =>
      /\ "cnpj_valid" \in DOMAIN tasks["cnpj_status"].rec
      /\ tasks["cnpj_status"].rec["cnpj_valid"] = VBool(_validate_cnpj(cnpj))
      /\ op = "verify_cnpj_status" => result.rec = tasks["cnpj_status"].rec

\* the response supplied cnpj_valid = false; the record says true
C25_Witness ==
    /\ op = "verify_cnpj_status" /\ opc = "done"
    /\ ParsesAsObject(tasks["cnpj_status"].text)
    /\ DictGet(tasks["cnpj_status"].text.payload.o, "cnpj_valid") = VBool(FALSE)
    /\ result.rec["cnpj_valid"] = VBool(TRUE)
    /\ HasStatus(result.rec, "success")

(***************************************************************************)
(* C27: in comprehensive_check each check's outcome is stored under its    *)
(* own key whatever the order in which the four concurrent tasks           *)
(* complete: checks_performed.cnpj_status holds the outcome of             *)
(* verify_cnpj_status, reputation that of check_dealer_reputation,         *)
(* legal_issues that of check_legal_issues and business_images that of     *)
(* search_business_images; no interleaving swaps or drops an outcome.      *)
(***************************************************************************)
C27_OutcomeOf(k) ==
    IF tasks[k].pc = "raised" THEN [error |-> Tok(tasks[k].exc)]
    ELSE CheckRecord(k, tasks[k].text, cnpj, company_name)

C27_OutcomesUnderOwnKey ==
    result.kind = "consolidated" =>
      /\ DOMAIN data = CheckKeys
      /\ \A k \in CheckKeys : data[k] = C27_OutcomeOf(k)
      /\ tasks["cnpj_status"].pc = "done" => "cnpj_valid" \in DOMAIN data["cnpj_status"]
      /\ tasks["business_images"].pc = "done" =>
           "business_images" \in DOMAIN data["business_images"]

\* the responses arrived in the reverse of the order of the keys: the
\* fallback calls were issued last task first; the four outcomes differ
C27_Witness ==
    /\ result.kind = "consolidated"
    /\ Len(api_log) = 8
    /\ <<api_log[5].kind, api_log[6].kind, api_log[7].kind, api_log[8].kind>>
         = <<"business_images", "legal_issues", "reputation", "cnpj_status">>
    /\ data["reputation"] # data["legal_issues"]
    /\ data["cnpj_status"] # data["reputation"]

(***************************************************************************)
(* C29: cost bookkeeping loses no update: after any sequence of tracked    *)
(* requests and resets, and under every interleaving of the four           *)
(* concurrent checks of a comprehensive run, total_cost equals the sum of  *)
(* cost_usd over the entries of request_history and the history holds      *)
(* exactly one entry per _track_request call since the last                *)
(* reset_cost_tracking; reset_cost_tracking restores total_cost = 0 and    *)
(* an empty history.                                                       *)
(***************************************************************************)
RECURSIVE C29_SumCost(_)
C29_SumCost(history) ==
    IF history = << >> THEN 0
    ELSE history[1].cost_usd + C29_SumCost(Tail(history))

\* the attempts whose response carried a usage: the _track_request calls
C29_Tracked(ts) ==
    LET n(k) == Cardinality({i \in 1..Len(ts[k].attempts) :
                               ts[k].attempts[i] \in {"text", "no_content"}})
    IN  n("cnpj_status") + n("reputation") + n("legal_issues") + n("business_images")

C29_Bookkeeping ==
    IF tasks' = tasks /\ result' = result
         /\ <<request_history, total_cost>>' # <<request_history, total_cost>>
    THEN request_history' = << >> /\ total_cost' = 0
    ELSE LET calls == C29_Tracked(tasks') - C29_Tracked(tasks) IN
         /\ Len(request_history') = Len(request_history) + calls
         /\ SubSeq(request_history', 1, Len(request_history)) = request_history

C29_NoLostUpdate ==
    /\ [](total_cost = C29_SumCost(request_history))
    /\ [][C29_Bookkeeping]_vars

\* a comprehensive run of four tracked requests with a reset after the
\* second: the history holds the two tracked since, a fallback request
\* tracked before a search request of another task
C29_Witness ==
    /\ op = "comprehensive_check" /\ opc = "done"
    /\ C29_Tracked(tasks) = 4
    /\ Len(request_history) = 2
    /\ request_history[1].model = FallbackModel
    /\ request_history[2].model = SearchModel
    /\ total_cost = C29_SumCost(request_history)
    /\ total_cost > 0

(***************************************************************************)
(* C30: _make_search_request never raises an Exception to its caller and   *)
(* follows a fixed order: the search-capable model is called first; the    *)
(* fallback model is called only after the search-capable call (or the     *)
(* handling of its response) failed; the JSON error payload with status    *)
(* error is returned only after both attempts failed; and a successful     *)
(* first attempt is returned without calling the fallback model.           *)
(***************************************************************************)
C30_ErrorPayload(text) ==
    /\ text.payload.k = "object"
    /\ DOMAIN text.payload.o = {"error", "status", "query_date"}
    /\ text.payload.o["status"] = Tok("error")
    /\ text.payload.o["error"].s[1] = "Erro ao consultar API: "

C30_RequestOrder ==
    \A k \in CheckKeys :
      LET calls == CallsOf(k)
          attempts == tasks[k].attempts
      IN  /\ Len(calls) >= 1 => calls[1].model = SearchModel
          /\ \A i \in 2..Len(calls) :
               calls[i].model = FallbackModel /\ attempts[i - 1] \in FailedAttempts
          /\ C30_ErrorPayload(tasks[k].text) =>
               /\ Len(calls) = 2 /\ Len(attempts) = 2
               /\ attempts[1] \in FailedAttempts /\ attempts[2] \in FailedAttempts
          /\ (attempts # << >> /\ attempts[1] \notin FailedAttempts) =>
               /\ calls = <<[kind |-> k, model |-> SearchModel]>>
               /\ tasks[k].pc = "done"
          /\ calls # << >> => tasks[k].pc # "raised"
          /\ (tasks[k].pc = "done" /\ calls # << >>) => tasks[k].text # NoText

\* the search response had no content, the fallback call raised, and the
\* error payload came back
C30_Witness ==
    \E k \in CheckKeys :
      /\ tasks[k].attempts = <<"no_content", "raise">>
      /\ C30_ErrorPayload(tasks[k].text)
      /\ CallsOf(k) = <<[kind |-> k, model |-> SearchModel],
                        [kind |-> k, model |-> FallbackModel]>>

=============================================================================
